---- MODULE Spec2Model ----
(***************************************************************************)
(* Model of the App-In performance API: the aggregation engine of          *)
(* internal/appin (newConversion, newCAFinalConversion, the four           *)
(* time-interval histogram builders, newOverview, SetCAFinal) and the      *)
(* fan-out/fan-in of Service.GetOverview over the two list fetches.        *)
(*                                                                         *)
(* Time is counted in ticks; TicksPerMinute ticks make one time.Minute.    *)
(* A *time.Time is a sequence: <<>> is nil, <<t>> points at instant t.     *)
(* A Go string that the code lower-cases or searches is a sequence of      *)
(* one-character strings, so that strings.ToLower and strings.Contains     *)
(* are computed, not assumed.  A float32 percentage is the exact rational  *)
(* [num, den] in lowest terms.  The clock is read once per build: every    *)
(* time.Since and time.Now of one build sees the same instant `now`.       *)
(* Ranging over a Go map visits the entries in any order and sort.Slice    *)
(* leaves the order of equal elements open: getTopPerformer,               *)
(* createLeaderboards, findBestTimeUsedByExecutor, the product metrics,    *)
(* newOverview and SetCAFinal therefore denote the set of results the      *)
(* call may produce, and the actions choose one of them.                   *)
(***************************************************************************)
EXTENDS Integers, Sequences, FiniteSets, TLC

VARIABLES
    pcMain,      \* position of Service.GetOverview
    pcA,         \* position of the goroutine running listAppIns
    pcC,         \* position of the goroutine running listCAFinals
    asLocal,     \* listAppIns: its local slice `as`
    caLocal,     \* listCAFinals: its local slice `as`
    as,          \* GetOverview: captured variable `as`
    ca,          \* GetOverview: captured variable `ca`
    asStopped,   \* listAppIns: the page callback returned false
    caStopped,   \* listCAFinals: the page callback returned false
    gErr,        \* errgroup.Group: the first error returned by a goroutine
    ctxDone,     \* the errgroup context has been cancelled
    overview,    \* GetOverview's *Overview result: <<>> is nil
    retErr,      \* GetOverview's error result
    now,         \* the wall clock read by time.Since / time.Now
    probe,       \* duration handed to the histogram builders (bucket probe)
    probeOut,    \* the four histograms built for the probe
    legacy,      \* the Conversion built by the older newConversion: <<>> is none
    leaderboards, \* the result of one createLeaderboards call: <<>> is none
    again,       \* the Overview of a second newOverview(as) call: <<>> is none
    query,       \* GetOverview's argument q
    filters      \* the Filter strings built from q by the two fetches

vars == <<pcMain, pcA, pcC, asLocal, caLocal, as, ca, asStopped, caStopped,
          gErr, ctxDone, overview, retErr, now, probe, probeOut,
          legacy, leaderboards, again, query, filters>>

-----------------------------------------------------------------------------
(* Bounds *)

TicksPerMinute == 2
MaxItems == 2

(* time package units *)
Minute == TicksPerMinute
Hour == 60 * Minute

NoErr == "nil"

\* createLeaderboards: `if len(leaderboards) >= 5 { break }`
LeaderboardLimit == 5

-----------------------------------------------------------------------------
(* strings *)

Upper == <<"A","B","C","D","E","F","G","H","I","J","K","L","M",
           "N","O","P","Q","R","S","T","U","V","W","X","Y","Z">>
Lower == <<"a","b","c","d","e","f","g","h","i","j","k","l","m",
           "n","o","p","q","r","s","t","u","v","w","x","y","z">>

\* the lower-case letter of each upper-case letter
LowerOf ==
    [c \in {Upper[i] : i \in DOMAIN Upper} |->
        Lower[CHOOSE i \in DOMAIN Upper : Upper[i] = c]]

ToLowerChar(c) == IF c \in DOMAIN LowerOf THEN LowerOf[c] ELSE c

\* strings.ToLower
ToLower(s) == [i \in DOMAIN s |-> ToLowerChar(s[i])]

\* strings.Contains
Contains(s, substr) ==
    \E i \in 0..(Len(s) - Len(substr)) : SubSeq(s, i + 1, i + Len(substr)) = substr

\* the literal "not pass"
NotPass == <<"n","o","t"," ","p","a","s","s">>
\* the literal "completed"
CompletedLit == <<"c","o","m","p","l","e","t","e","d">>

-----------------------------------------------------------------------------
(* numbers *)

RECURSIVE Gcd(_, _)
Gcd(a, b) == IF b = 0 THEN a ELSE Gcd(b, a % b)

\* Go integer division truncates toward zero
QuoT(a, b) == IF a >= 0 THEN a \div b ELSE -((-a) \div b)

\* float32 zero value
ZeroFloat == [num |-> 0, den |-> 1]

\* float32(n) / float32(d) * 100, d > 0
Percent(n, d) ==
    LET g == Gcd(n * 100, d)
    IN  [num |-> (n * 100) \div g, den |-> d \div g]

\* t.Sub(u)
Sub(t, u) == t - u

-----------------------------------------------------------------------------
(* Conversion: newConversion *)

\* const threshold = 5 * time.Hour
threshold == 5 * Hour

\* line 224 without the lower-casing of the status
appInConvertedCaseSensitive(appIn) ==
    Len(appIn.Status) > 0 /\ ~Contains(appIn.Status, NotPass) /\ appIn.CompletedAt # <<>>

\* line 224: the record is converted
appInConverted(appIn) ==
    LET status == ToLower(appIn.Status)
    IN  Len(status) > 0 /\ ~Contains(status, NotPass) /\ appIn.CompletedAt # <<>>

\* line 229 with < in place of <=
isFastestExclusive(duration) == duration < Minute * 30

\* line 229: duration <= time.Minute*30
isFastest(duration) == duration <= Minute * 30

\* line 233 without the one-minute floor
improvesBestTimeNoFloor(bestTime, duration) ==
    bestTime = 0 \/ duration < bestTime

\* line 233: the duration replaces bestTime
improvesBestTime(bestTime, duration) ==
    (bestTime = 0 \/ duration < bestTime) /\ duration >= Minute

\* line 238 without the test of the status
appInPendingAnyStatus(appIn) == appIn.CompletedAt = <<>>

\* line 238: the record is pending
appInPending(appIn) ==
    ToLower(appIn.Status) = <<>> /\ appIn.CompletedAt = <<>>

\* line 240 with >= in place of >
needsAttentionInclusive(duration) == duration >= threshold

\* line 240: duration > threshold
needsAttention(duration) == duration > threshold

\* line 245 without the lower-casing of the status
appInNotPassedCaseSensitive(appIn) == Contains(appIn.Status, NotPass)

\* line 245 testing only that there is a status
appInNotPassedAnyStatus(appIn) == Len(appIn.Status) > 0

\* line 245: the record is not passed
appInNotPassed(appIn) == Contains(ToLower(appIn.Status), NotPass)

ZeroAcc == [sum |-> 0, bestTime |-> 0, fastestCount |-> 0, needAttention |-> 0,
            converted |-> 0, notPassed |-> 0]

\* the `if converted` block with sum = duration in place of sum += duration
addConvertedLastDuration(acc, duration) ==
    [acc EXCEPT !.converted = @ + 1,
                !.sum = duration,
                !.fastestCount = IF isFastest(duration) THEN @ + 1 ELSE @,
                !.bestTime = IF improvesBestTime(@, duration) THEN duration ELSE @]

\* the `if converted` block shared by both conversion loops (lines 225-235, 288-298)
addConverted(acc, duration) ==
    [acc EXCEPT !.converted = @ + 1,
                !.sum = @ + duration,
                !.fastestCount = IF isFastest(duration) THEN @ + 1 ELSE @,
                !.bestTime = IF improvesBestTime(@, duration) THEN duration ELSE @]

\* one iteration of the loop of newConversion (lines 222-248)
conversionStep(acc, appIn, clock) ==
    LET a1 == IF appInConverted(appIn)
              THEN addConverted(acc, Sub(appIn.CompletedAt[1], appIn.CreatedAt))
              ELSE acc
        a2 == IF appInPending(appIn) /\ needsAttention(Sub(clock, appIn.CreatedAt))
              THEN [a1 EXCEPT !.needAttention = @ + 1]
              ELSE a1
    IN  IF appInNotPassed(appIn) THEN [a2 EXCEPT !.notPassed = @ + 1] ELSE a2

RECURSIVE conversionLoop(_, _, _, _)
conversionLoop(acc, appIns, i, clock) ==
    IF i > Len(appIns) THEN acc
    ELSE conversionLoop(conversionStep(acc, appIns[i], clock), appIns, i + 1, clock)

\* line 253 without the not-passed records
processedConvertedOnly(acc) == acc.converted

\* line 253: processed := converted + notPassed
processedOf(acc) == acc.converted + acc.notPassed

newConversion(appIns, clock) ==
    LET total == Len(appIns)
        acc == conversionLoop(ZeroAcc, appIns, 1, clock)
        processed == processedOf(acc)
    IN  [Total |-> total,
         Converted |-> acc.converted,
         Rate |-> IF total > 0 THEN Percent(processed, total) ELSE ZeroFloat,
         AverageTime |-> IF total > 0 /\ processed > 0
                         THEN QuoT(acc.sum, processed) ELSE 0,
         NeedAttention |-> acc.needAttention,
         Fastest |-> acc.fastestCount,
         BestTime |-> acc.bestTime,
         FastestPercent |-> IF processed > 0
                            THEN Percent(acc.fastestCount, processed) ELSE ZeroFloat,
         NotPassed |-> acc.notPassed]

-----------------------------------------------------------------------------
(* Conversion: newCAFinalConversion *)

\* line 287: the review is converted
caFinalConverted(c) ==
    LET status == ToLower(c.Status)
    IN  Len(status) > 0 /\ status = CompletedLit /\ c.CompletedAt # <<>>

\* line 301 without the test of the status
caFinalPendingAnyStatus(c) == c.CompletedAt = <<>>

\* line 301: the review is pending
caFinalPending(c) ==
    ToLower(c.Status) # CompletedLit /\ c.CompletedAt = <<>>

\* one iteration of the loop of newCAFinalConversion (lines 285-307)
caFinalConversionStep(acc, c, clock) ==
    LET a1 == IF caFinalConverted(c)
              THEN addConverted(acc, Sub(c.CompletedAt[1], c.CreatedAt))
              ELSE acc
    IN  IF caFinalPending(c) /\ needsAttention(Sub(clock, c.CreatedAt))
        THEN [a1 EXCEPT !.needAttention = @ + 1]
        ELSE a1

RECURSIVE caFinalConversionLoop(_, _, _, _)
caFinalConversionLoop(acc, cs, i, clock) ==
    IF i > Len(cs) THEN acc
    ELSE caFinalConversionLoop(caFinalConversionStep(acc, cs[i], clock), cs, i + 1, clock)

newCAFinalConversion(cs, clock) ==
    LET total == Len(cs)
        acc == caFinalConversionLoop(ZeroAcc, cs, 1, clock)
    IN  [Total |-> total,
         Converted |-> acc.converted,
         Rate |-> IF total > 0 THEN Percent(acc.converted, total) ELSE ZeroFloat,
         AverageTime |-> IF total > 0 /\ acc.converted > 0
                         THEN QuoT(acc.sum, acc.converted) ELSE 0,
         NeedAttention |-> acc.needAttention,
         Fastest |-> acc.fastestCount,
         BestTime |-> acc.bestTime,
         FastestPercent |-> IF acc.converted > 0
                            THEN Percent(acc.fastestCount, acc.converted) ELSE ZeroFloat,
         NotPassed |-> 0]

-----------------------------------------------------------------------------
(* Conversion: the older newConversion, without not-passed and best time *)

\* the literal "pending"
PendingLit == <<"p","e","n","d","i","n","g">>

\* the record is converted
legacyConverted(appIn) ==
    /\ ToLower(appIn.Status) # PendingLit
    /\ Len(appIn.Status) > 0
    /\ appIn.CompletedAt # <<>>

\* duration <= time.Hour
legacyIsFastest(duration) == duration <= Hour

\* the record is pending
legacyPending(appIn) ==
    (ToLower(appIn.Status) = PendingLit \/ appIn.Status = <<>>)
    /\ appIn.CompletedAt = <<>>

\* one iteration of the loop
legacyConversionStep(acc, appIn, clock) ==
    LET duration == Sub(appIn.CompletedAt[1], appIn.CreatedAt)
        a1 == IF legacyConverted(appIn)
              THEN [acc EXCEPT !.converted = @ + 1,
                               !.sum = @ + duration,
                               !.fastestCount = IF legacyIsFastest(duration)
                                                THEN @ + 1 ELSE @]
              ELSE acc
    IN  IF legacyPending(appIn) /\ needsAttention(Sub(clock, appIn.CreatedAt))
        THEN [a1 EXCEPT !.needAttention = @ + 1]
        ELSE a1

RECURSIVE legacyConversionLoop(_, _, _, _)
legacyConversionLoop(acc, appIns, i, clock) ==
    IF i > Len(appIns) THEN acc
    ELSE legacyConversionLoop(legacyConversionStep(acc, appIns[i], clock),
                              appIns, i + 1, clock)

legacyNewConversion(appIns, clock) ==
    LET total == Len(appIns)
        acc == legacyConversionLoop(ZeroAcc, appIns, 1, clock)
    IN  [Total |-> total,
         Converted |-> acc.converted,
         Rate |-> IF total > 0 THEN Percent(acc.converted, total) ELSE ZeroFloat,
         AverageTime |-> IF total > 0 /\ acc.converted > 0
                         THEN QuoT(acc.sum, acc.converted) ELSE 0,
         NeedAttention |-> acc.needAttention,
         Fastest |-> acc.fastestCount,
         FastestPercent |-> IF acc.converted > 0
                            THEN Percent(acc.fastestCount, acc.converted) ELSE ZeroFloat]

-----------------------------------------------------------------------------
(* Time-interval histograms *)

titles == <<"<30min", "<1h", "<2h", "<3h", "<4h", "<5h", "5h+">>

\* the switch with <= in place of < on its first case
bucketOfInclusive(duration) ==
    IF duration <= 30 * Minute THEN "<30min"
    ELSE IF duration < Hour THEN "<1h"
    ELSE IF duration < 2 * Hour THEN "<2h"
    ELSE IF duration < 3 * Hour THEN "<3h"
    ELSE IF duration < 4 * Hour THEN "<4h"
    ELSE IF duration < 5 * Hour THEN "<5h"
    ELSE "5h+"

\* the switch on duration, identical in the four builders
\* (lines 544-559, 594-609, 670-685, 720-735)
bucketOf(duration) ==
    IF duration < 30 * Minute THEN "<30min"
    ELSE IF duration < Hour THEN "<1h"
    ELSE IF duration < 2 * Hour THEN "<2h"
    ELSE IF duration < 3 * Hour THEN "<3h"
    ELSE IF duration < 4 * Hour THEN "<4h"
    ELSE IF duration < 5 * Hour THEN "<5h"
    ELSE "5h+"

\* intervals := make(map[string]int64); intervals[t] = 0 for every title
ZeroIntervals == [t \in {titles[i] : i \in DOMAIN titles} |-> 0]

\* intervals[bucket]++
countInto(intervals, duration) ==
    [intervals EXCEPT ![bucketOf(duration)] = @ + 1]

\* the final loop appending only the titles that counted a record
toTimeIntervalsCounted(intervals) ==
    SelectSeq([i \in DOMAIN titles |-> [Title |-> titles[i], Total |-> intervals[titles[i]]]],
              LAMBDA t : t.Total > 0)

\* ts = append(ts, &TimeInterval{Title: t, Total: intervals[t]}) for every title
toTimeIntervals(intervals) ==
    [i \in DOMAIN titles |-> [Title |-> titles[i], Total |-> intervals[titles[i]]]]

\* line 542 without the test that there is a status
appInConvertedIntervalAnyStatus(a) ==
    ~Contains(ToLower(a.Status), NotPass) /\ a.CompletedAt # <<>>

\* line 542
appInConvertedInterval(a) ==
    LET status == ToLower(a.Status)
    IN  Len(a.Status) > 0 /\ ~Contains(status, NotPass) /\ a.CompletedAt # <<>>

RECURSIVE convertedLoop(_, _, _)
convertedLoop(intervals, appIns, i) ==
    IF i > Len(appIns) THEN intervals
    ELSE convertedLoop(
             IF appInConvertedInterval(appIns[i])
             THEN countInto(intervals, Sub(appIns[i].CompletedAt[1], appIns[i].CreatedAt))
             ELSE intervals,
             appIns, i + 1)

createTimeIntervalsByConverted(appIns) ==
    toTimeIntervals(convertedLoop(ZeroIntervals, appIns, 1))

\* line 592 without the test of the status
appInPendingIntervalAnyStatus(a) == a.CompletedAt = <<>>

\* line 592
appInPendingInterval(a) == a.Status = <<>> /\ a.CompletedAt = <<>>

RECURSIVE pendingLoop(_, _, _, _)
pendingLoop(intervals, appIns, i, clock) ==
    IF i > Len(appIns) THEN intervals
    ELSE pendingLoop(
             IF appInPendingInterval(appIns[i])
             THEN countInto(intervals, Sub(clock, appIns[i].CreatedAt))
             ELSE intervals,
             appIns, i + 1, clock)

createTimeIntervalsByPending(appIns, clock) ==
    toTimeIntervals(pendingLoop(ZeroIntervals, appIns, 1, clock))

\* line 668 with strings.Contains in place of ==
caFinalConvertedIntervalContains(a) ==
    Contains(ToLower(a.Status), CompletedLit) /\ a.CompletedAt # <<>>

\* line 668
caFinalConvertedInterval(a) ==
    ToLower(a.Status) = CompletedLit /\ a.CompletedAt # <<>>

RECURSIVE caFinalConvertedLoop(_, _, _)
caFinalConvertedLoop(intervals, cs, i) ==
    IF i > Len(cs) THEN intervals
    ELSE caFinalConvertedLoop(
             IF caFinalConvertedInterval(cs[i])
             THEN countInto(intervals, Sub(cs[i].CompletedAt[1], cs[i].CreatedAt))
             ELSE intervals,
             cs, i + 1)

createCAFinalTimeIntervalsByConverted(cs) ==
    toTimeIntervals(caFinalConvertedLoop(ZeroIntervals, cs, 1))

\* line 718 without the test of the status
caFinalPendingIntervalAnyStatus(a) == a.CompletedAt = <<>>

\* line 718
caFinalPendingInterval(a) ==
    ToLower(a.Status) # CompletedLit /\ a.CompletedAt = <<>>

RECURSIVE caFinalPendingLoop(_, _, _, _)
caFinalPendingLoop(intervals, cs, i, clock) ==
    IF i > Len(cs) THEN intervals
    ELSE caFinalPendingLoop(
             IF caFinalPendingInterval(cs[i])
             THEN countInto(intervals, Sub(clock, cs[i].CreatedAt))
             ELSE intervals,
             cs, i + 1, clock)

createCAFinalTimeIntervalsByPending(cs, clock) ==
    toTimeIntervals(caFinalPendingLoop(ZeroIntervals, cs, 1, clock))

-----------------------------------------------------------------------------
(* Grouping by executor and per-executor metrics *)

\* the grouping without the skip of records with an empty Executor
groupByExecutorKeepsEmpty(records) ==
    LET keys == {records[i].Executor : i \in DOMAIN records}
    IN  [e \in keys |-> SelectSeq(records, LAMBDA a : a.Executor = e)]

\* groupAppInByExecutor / groupCAFinalByExecutor: records with an empty
\* Executor are skipped, the others are appended to their executor's group
groupByExecutor(records) ==
    LET keys == {records[i].Executor : i \in DOMAIN records} \ {""}
    IN  [e \in keys |-> SelectSeq(records, LAMBDA a : a.Executor = e)]

calculatePerformanceConversionMetricsByExecutor(groups, clock) ==
    [executor \in DOMAIN groups |->
        [DisplayName |-> executor,
         Conversion |-> newConversion(groups[executor], clock),
         Performances |-> createTimeIntervalsByConverted(groups[executor])]]

calculateCAFinalConversionMetricsByExecutor(groups, clock) ==
    [executor \in DOMAIN groups |->
        [DisplayName |-> executor,
         Conversion |-> newCAFinalConversion(groups[executor], clock),
         Performances |-> createCAFinalTimeIntervalsByConverted(groups[executor])]]

-----------------------------------------------------------------------------
(* Ranging over a map and sort.Slice *)

\* float32 comparison a > b
PercentGreater(a, b) == a.num * b.den > b.num * a.den

\* sort.Slice: the order of the elements that compare equal is not fixed,
\* and the slice handed to it was filled in map order, so the result is any
\* arrangement of the elements in which no element is less than an earlier
\* one; less is the set of the pairs <<x, y>> for which the comparator
\* reports x before y
sortSlice(elements, less) ==
    LET RECURSIVE sorted(_)
        sorted(rest) ==
            IF rest = {} THEN {<<>>}
            ELSE LET firsts == {x \in rest : \A y \in rest : <<y, x>> \notin less}
                 IN  UNION {{<<x>> \o tail : tail \in sorted(rest \ {x})} : x \in firsts}
    IN  sorted(elements)

-----------------------------------------------------------------------------
(* Top performer, leaderboard, best time *)

\* var top TopPerformer
ZeroTopPerformer == [DisplayName |-> "", Converted |-> 0, ConversionRate |-> ZeroFloat]

\* line 340 with >= in place of > on the converted counts
takesTheTopInclusive(top, c) ==
    \/ c.Conversion.Converted >= top.Converted
    \/ (c.Conversion.Converted = top.Converted
        /\ PercentGreater(c.Conversion.Rate, top.ConversionRate))

\* line 340 without the comparison of the rates
takesTheTopIgnoresRate(top, c) == c.Conversion.Converted > top.Converted

\* line 340: the performer replaces top
takesTheTop(top, c) ==
    \/ c.Conversion.Converted > top.Converted
    \/ (c.Conversion.Converted = top.Converted
        /\ PercentGreater(c.Conversion.Rate, top.ConversionRate))

\* the loop of getTopPerformer (lines 339-345) over the entries not yet
\* visited, in every order the map may yield them
RECURSIVE topPerformerLoop(_, _, _)
topPerformerLoop(top, conversions, rest) ==
    IF rest = {} THEN {top}
    ELSE UNION {
        topPerformerLoop(
            IF takesTheTop(top, conversions[executor])
            THEN [DisplayName |-> executor,
                  Converted |-> conversions[executor].Conversion.Converted,
                  ConversionRate |-> conversions[executor].Conversion.Rate]
            ELSE top,
            conversions, rest \ {executor}) : executor \in rest}

\* the TopPerformers getTopPerformer may return
getTopPerformer(conversions) ==
    topPerformerLoop(ZeroTopPerformer, conversions, DOMAIN conversions)

\* the comparator with the average time left out
performerLessNoAverage(p, q) ==
    IF p.Conversion.Converted # q.Conversion.Converted
    THEN p.Conversion.Converted > q.Conversion.Converted
    ELSE PercentGreater(p.Conversion.Rate, q.Conversion.Rate)

\* the comparator with the converted count ascending
performerLessFewestFirst(p, q) ==
    IF p.Conversion.Converted # q.Conversion.Converted
    THEN p.Conversion.Converted < q.Conversion.Converted
    ELSE IF p.Conversion.Rate # q.Conversion.Rate
    THEN PercentGreater(p.Conversion.Rate, q.Conversion.Rate)
    ELSE p.Conversion.AverageTime < q.Conversion.AverageTime

\* lines 487-499: the comparator handed to sort.Slice
performerLess(p, q) ==
    IF p.Conversion.Converted # q.Conversion.Converted
    THEN p.Conversion.Converted > q.Conversion.Converted
    ELSE IF p.Conversion.Rate # q.Conversion.Rate
    THEN PercentGreater(p.Conversion.Rate, q.Conversion.Rate)
    ELSE p.Conversion.AverageTime < q.Conversion.AverageTime

\* lines 503-512: the Leaderboard entry of the performer at index i - 1
leaderboardEntry(i, p) ==
    [Rank |-> i,
     DisplayName |-> p.DisplayName,
     Converted |-> p.Conversion.Converted,
     Total |-> p.Conversion.Total,
     ConversionRate |-> p.Conversion.Rate,
     Performances |-> p.Performances,
     AverageTime |-> p.Conversion.AverageTime,
     BestTime |-> p.Conversion.BestTime]

\* lines 502-518: append the entries in order and break at LeaderboardLimit
RECURSIVE leaderboardLoop(_, _, _)
leaderboardLoop(entries, performers, i) ==
    IF i > Len(performers) THEN entries
    ELSE LET appended == Append(entries, leaderboardEntry(i, performers[i]))
         IN  IF Len(appended) >= LeaderboardLimit THEN appended
             ELSE leaderboardLoop(appended, performers, i + 1)

\* the leaderboards createLeaderboards may return
createLeaderboards(conversions) ==
    LET performers == {conversions[executor] : executor \in DOMAIN conversions}
        less == {pq \in performers \X performers : performerLess(pq[1], pq[2])}
    IN  {leaderboardLoop(<<>>, sorted, 1) : sorted \in sortSlice(performers, less)}

\* the BestTimeExecutor returned for an empty map (lines 625-630)
NoBestTimeExecutor == [DisplayName |-> "N/A", BestTime |-> 0]

\* lines 636-637 without the test that the performer has a best time
improvesBestExecutorAnyTime(bestTime, metric) ==
    bestTime = 0 \/ metric.Conversion.BestTime < bestTime

\* lines 636-641: the performer replaces the best
improvesBestExecutor(bestTime, metric) ==
    /\ metric.Conversion.BestTime > 0
    /\ (bestTime = 0 \/ metric.Conversion.BestTime < bestTime)

\* the loop of findBestTimeUsedByExecutor (lines 635-642) over the entries
\* not yet visited, in every order the map may yield them
RECURSIVE bestTimeLoop(_, _, _)
bestTimeLoop(best, p, rest) ==
    IF rest = {} THEN {best}
    ELSE UNION {
        bestTimeLoop(
            IF improvesBestExecutor(best.BestTime, p[executor])
            THEN [DisplayName |-> executor,
                  BestTime |-> p[executor].Conversion.BestTime]
            ELSE best,
            p, rest \ {executor}) : executor \in rest}

\* the BestTimeExecutors findBestTimeUsedByExecutor may return
findBestTimeUsedByExecutor(p) ==
    IF Cardinality(DOMAIN p) = 0 THEN {NoBestTimeExecutor}
    ELSE bestTimeLoop([DisplayName |-> "", BestTime |-> 0], p, DOMAIN p)

-----------------------------------------------------------------------------
(* Product metrics *)

\* the literals of groupAppInByProduct
SaleAutoLit == <<"s","a","l","e"," ","a","u","t","o">>
C4CLit == <<"c","4","c">>
UsedCarLit == <<"u","s","e","d"," ","c","a","r">>
MCLit == <<"m","c">>
C4CPrefix == <<"C","4","C"," ","|"," ">>
UsedCarPrefix == <<"U","s","e","d"," ","C","a","r"," ","|"," ">>
MCPrefix == <<"M","C"," ","|"," ">>

\* the switch with the "mc" case tested before the "used car" case
productKeyMCFirst(a) ==
    IF ToLower(a.Product) = SaleAutoLit
    THEN IF Contains(ToLower(a.Type), C4CLit) THEN C4CPrefix \o a.Product
         ELSE IF Contains(ToLower(a.Type), MCLit) THEN MCPrefix \o a.Product
         ELSE IF Contains(ToLower(a.Type), UsedCarLit) THEN UsedCarPrefix \o a.Product
         ELSE a.Product
    ELSE a.Product

\* lines 383-404: the key of the group the record is appended to
productKey(a) ==
    IF ToLower(a.Product) = SaleAutoLit
    THEN IF Contains(ToLower(a.Type), C4CLit) THEN C4CPrefix \o a.Product
         ELSE IF Contains(ToLower(a.Type), UsedCarLit) THEN UsedCarPrefix \o a.Product
         ELSE IF Contains(ToLower(a.Type), MCLit) THEN MCPrefix \o a.Product
         ELSE a.Product
    ELSE a.Product

\* the map from each key to the records appended under it, in input order;
\* records with an empty Type are skipped (lines 379-381)
groupAppInByProduct(appIns) ==
    LET typed(a) == a.Type # <<>>
        keys == {productKey(appIns[i]) : i \in {j \in DOMAIN appIns : typed(appIns[j])}}
    IN  [key \in keys |->
            SelectSeq(appIns, LAMBDA a : typed(a) /\ productKey(a) = key)]

\* the comparator sorting by average time alone
productLessAverageOnly(p, q) == p.AverageTime < q.AverageTime

\* lines 417-429: the comparator handed to sort.Slice
productLess(p, q) ==
    IF p.Converted # q.Converted THEN p.Converted > q.Converted
    ELSE IF p.ConversionRate # q.ConversionRate
    THEN PercentGreater(p.ConversionRate, q.ConversionRate)
    ELSE p.AverageTime < q.AverageTime

\* lines 405-414: the ProductMetrics of one group
productMetrics(product, apps, clock) ==
    LET c == newConversion(apps, clock)
    IN  [Name |-> product,
         Total |-> Len(apps),
         Converted |-> c.Converted,
         ConversionRate |-> c.Rate,
         AverageTime |-> c.AverageTime,
         NotPassed |-> c.NotPassed]

\* the lists calculatePerformanceConversionMetricsByProduct may return
calculatePerformanceConversionMetricsByProduct(appIns, clock) ==
    LET groups == groupAppInByProduct(appIns)
        products == {productMetrics(product, groups[product], clock) :
                        product \in DOMAIN groups}
        less == {pq \in products \X products : productLess(pq[1], pq[2])}
    IN  sortSlice(products, less)

-----------------------------------------------------------------------------
(* Overview *)

\* the CAFinalOverviews newCAFinalOverview may return
newCAFinalOverview(cs, clock) ==
    LET groups == groupByExecutor(cs)
        performances == calculateCAFinalConversionMetricsByExecutor(groups, clock)
    IN  {[ActiveExecutor |-> Cardinality(DOMAIN groups),
          TopPerformer |-> top,
          Leaderboards |-> board,
          BestTimeUsed |-> best,
          Conversion |-> newCAFinalConversion(cs, clock),
          TimeIntervalsByConverted |-> createCAFinalTimeIntervalsByConverted(cs),
          TimeIntervalsByPending |-> createCAFinalTimeIntervalsByPending(cs, clock)] :
            top \in getTopPerformer(performances),
            board \in createLeaderboards(performances),
            best \in findBestTimeUsedByExecutor(performances)}

\* the Overviews newOverview may return
newOverview(appIns, clock) ==
    LET groups == groupByExecutor(appIns)
        performances == calculatePerformanceConversionMetricsByExecutor(groups, clock)
    IN  {[ActiveExecutor |-> Cardinality(DOMAIN groups),
          TopPerformer |-> top,
          Conversion |-> newConversion(appIns, clock),
          Leaderboards |-> board,
          TimeIntervalsByConverted |-> createTimeIntervalsByConverted(appIns),
          BestTimeUsed |-> best,
          TimeIntervalsByPending |-> createTimeIntervalsByPending(appIns, clock),
          ProductMetrics |-> products,
          CAFinalOverview |-> <<>>] :
            top \in getTopPerformer(performances),
            board \in createLeaderboards(performances),
            best \in findBestTimeUsedByExecutor(performances),
            products \in calculatePerformanceConversionMetricsByProduct(appIns, clock)}

\* SetCAFinal also storing the review Conversion as the Overview's own
SetCAFinalOverConversion(o, cs, clock) ==
    {[o EXCEPT !.CAFinalOverview = <<c>>, !.Conversion = c.Conversion] :
        c \in newCAFinalOverview(cs, clock)}

\* func (o *Overview) SetCAFinal(ca []*CAFinal): the Overviews it may leave
SetCAFinal(o, cs, clock) ==
    {[o EXCEPT !.CAFinalOverview = <<c>>] : c \in newCAFinalOverview(cs, clock)}

-----------------------------------------------------------------------------
(* Query: the $filter strings of the two fetches *)

\* a time.Time of the Query is <<>> for the zero value and <<t>> otherwise
IsZero(t) == t = <<>>

\* the zero value of Query
ZeroQuery == [CreatedAfter |-> <<>>, CreatedBefore |-> <<>>, Product |-> <<>>]

\* no Filter has been built yet
NoFilters == [appIn |-> <<>>, caFinal |-> <<>>]

\* t.Format(time.RFC3339): the text of the instant to the second; an instant
\* of the model is a whole number of ticks, hence of seconds
Format(t) == [rfc3339 |-> t[1]]

Day == 24 * Hour

\* time.Now().AddDate(0, -1, 0): the same day of the month before,
\* normalised, which is 28 to 31 days earlier depending on the date
monthAgo(clock) == {<<clock - days * Day>> : days \in 28..31}

\* a $filter is the sequence of its clauses, joined by " and "
customerTypeClause ==
    [field |-> "fields/CustomerType", op |-> "eq any of", value |-> "the eleven types"]
serviceTypeClause(product) ==
    [field |-> "fields/ServiceType", op |-> "eq", value |-> product]
createdClause(op, t) == [field |-> "fields/Created", op |-> op, value |-> Format(t)]

\* the three `if` blocks on CreatedAfter and CreatedBefore that String and
\* ToCAFinalQueryString share (part_001 lines 314-324, 337-347)
createdClauses(q) ==
    (IF ~IsZero(q.CreatedAfter) /\ ~IsZero(q.CreatedBefore)
     THEN <<createdClause("ge", q.CreatedAfter), createdClause("le", q.CreatedBefore)>>
     ELSE <<>>)
    \o (IF ~IsZero(q.CreatedAfter) /\ IsZero(q.CreatedBefore)
        THEN <<createdClause("ge", q.CreatedAfter)>> ELSE <<>>)
    \o (IF IsZero(q.CreatedAfter) /\ ~IsZero(q.CreatedBefore)
        THEN <<createdClause("le", q.CreatedBefore)>> ELSE <<>>)

\* lines 326-330 left out: no default window
lastMonthClausesNone(q, clock) == {<<>>}

\* lines 326-330: both times zero, query for the last month
lastMonthClauses(q, clock) ==
    IF IsZero(q.CreatedAfter) /\ IsZero(q.CreatedBefore)
    THEN {<<createdClause("ge", m)>> : m \in monthAgo(clock)}
    ELSE {<<>>}

\* func (q *Query) String() string: the filters it may return
QueryString(q, clock) ==
    {<<customerTypeClause>>
     \o (IF q.Product # <<>> THEN <<serviceTypeClause(q.Product)>> ELSE <<>>)
     \o createdClauses(q)
     \o default : default \in lastMonthClauses(q, clock)}

\* func (q *Query) ToCAFinalQueryString() string
ToCAFinalQueryString(q) == createdClauses(q)

-----------------------------------------------------------------------------
(* List items the upstream store can hold *)

Approved == <<"A","p","p","r","o","v","e","d">>
NotPassedTitle == <<"N","o","t"," ","P","a","s","s","e","d">>
NotPassUpper == <<"N","O","T"," ","P","A","S","S">>
CompletedTitle == <<"C","o","m","p","l","e","t","e","d">>
Uncompleted == <<"U","n","c","o","m","p","l","e","t","e","d">>

AppInStatuses == {<<>>, Approved, NotPassedTitle, NotPassUpper}
CAFinalStatuses == {<<>>, CompletedTitle, Uncompleted}
CreatedAts == {0, 1}
Elapsed == {1, 30 * Minute, 5 * Hour}
Nows == {5 * Hour, 5 * Hour + 1}

\* open items carry either creation time; completed items are created at 0
\* and completed after one of the elapsed times
Items(statuses, executors, elapsed) ==
    [Executor : executors, Status : statuses, CreatedAt : CreatedAts,
     CompletedAt : {<<>>}]
    \cup
    [Executor : executors, Status : statuses, CreatedAt : {0},
     CompletedAt : {<<e>> : e \in elapsed}]

Loan == <<"L","o","a","n">>
New == <<"N","e","w">>

\* the AppIn with the fields of r and the given Product and Type
withProduct(r, product, type) ==
    [Executor |-> r.Executor, Status |-> r.Status, CreatedAt |-> r.CreatedAt,
     CompletedAt |-> r.CompletedAt, Product |-> product, Type |-> type]

\* every status and time for executor A, and a few items that are unassigned
\* or assigned to executor B
AppInItems ==
    {withProduct(r, Loan, New) :
        r \in Items(AppInStatuses, {"A"}, Elapsed)
              \cup [Executor : {"", "B"}, Status : {Approved}, CreatedAt : {0},
                    CompletedAt : {<<>>, <<30 * Minute>>}]}

CAFinalItems ==
    Items(CAFinalStatuses, {"A"}, {30 * Minute, 5 * Hour})
    \cup [Executor : {"", "B"}, Status : {CompletedTitle}, CreatedAt : {0},
          CompletedAt : {<<30 * Minute>>}]

\* the items the fetches page through when the fan-out is explored
PagedAppInItems ==
    {withProduct(r, Loan, New) :
        r \in [Executor : {"A"}, Status : {<<>>, Approved}, CreatedAt : {0},
               CompletedAt : {<<30 * Minute>>}]}

PagedCAFinalItems ==
    [Executor : {"A"}, Status : {CompletedTitle}, CreatedAt : {0},
     CompletedAt : {<<>>, <<30 * Minute>>}]

\* the sequences over S of length at most n
SeqsUpTo(S, n) == UNION {[1..k -> S] : k \in 0..n}

-----------------------------------------------------------------------------
(* Service.GetOverview: errgroup fan-out over listAppIns and listCAFinals *)

InitService ==
    /\ pcMain = "start"
    /\ pcA = "unstarted"
    /\ pcC = "unstarted"
    /\ asLocal = <<>>
    /\ caLocal = <<>>
    /\ as = <<>>
    /\ ca = <<>>
    /\ asStopped = FALSE
    /\ caStopped = FALSE
    /\ gErr = NoErr
    /\ ctxDone = FALSE
    /\ overview = <<>>
    /\ retErr = NoErr
    /\ legacy = <<>>
    /\ leaderboards = <<>>
    /\ again = <<>>
    /\ query = ZeroQuery
    /\ filters = NoFilters

Init ==
    /\ InitService
    /\ now \in Nows
    /\ probe = 0
    /\ probeOut = <<>>

\* g.Go(func() { as, err = s.listAppIns(ctx, q) ... })
GoListAppIns ==
    /\ pcMain = "start"
    /\ pcMain' = "go"
    /\ pcA' = "get"
    /\ UNCHANGED <<pcC, asLocal, caLocal, as, ca, asStopped, caStopped, gErr,
                   ctxDone, overview, retErr, now, probe, probeOut,
                   legacy, leaderboards,
                   again, query, filters>>

\* g.Go(func() { ca, err = s.listCAFinals(ctx, q) ... })
GoListCAFinals ==
    /\ pcMain = "go"
    /\ pcMain' = "wait"
    /\ pcC' = "get"
    /\ UNCHANGED <<pcA, asLocal, caLocal, as, ca, asStopped, caStopped, gErr,
                   ctxDone, overview, retErr, now, probe, probeOut,
                   legacy, leaderboards,
                   again, query, filters>>

\* errgroup: a goroutine returned err; the first error is kept and cancels ctx
groupErr(err) == IF gErr = NoErr THEN err ELSE gErr

\* listAppIns: Items().Get and NewPageIterator succeed (lines 154-169)
AppInsGet ==
    /\ pcA = "get"
    /\ pcA' = "iterate"
    /\ asLocal' = <<>>
    /\ UNCHANGED <<pcMain, pcC, caLocal, as, ca, asStopped, caStopped, gErr,
                   ctxDone, overview, retErr, now, probe, probeOut,
                   legacy, leaderboards,
                   again, query, filters>>

\* listAppIns returns nil, err: Get, NewPageIterator or a later page failed,
\* possibly because ctx was cancelled
AppInsFail ==
    /\ pcA \in {"get", "iterate"}
    /\ pcA' = "failed"
    /\ as' = <<>>
    /\ asLocal' = <<>>
    /\ gErr' = groupErr("listAppIns")
    /\ ctxDone' = TRUE
    /\ UNCHANGED <<pcMain, pcC, caLocal, ca, asStopped, caStopped,
                   overview, retErr, now, probe, probeOut,
                   legacy, leaderboards,
                   again, query, filters>>

\* the page callback on an item that unmarshals: as = append(as, ...); return true
AppInsItem(item) ==
    /\ pcA = "iterate"
    /\ Len(asLocal) + Len(caLocal) + Len(as) + Len(ca) < MaxItems
    /\ asLocal' = Append(asLocal, item)
    /\ UNCHANGED <<pcMain, pcA, pcC, caLocal, as, ca, asStopped, caStopped, gErr,
                   ctxDone, overview, retErr, now, probe, probeOut,
                   legacy, leaderboards,
                   again, query, filters>>

\* the page callback on an item without fields, or that fails to marshal or
\* unmarshal: return false; Iterate stops and returns nil; listAppIns returns as, nil
AppInsStop ==
    /\ pcA = "iterate"
    /\ pcA' = "returned"
    /\ as' = asLocal
    /\ asLocal' = <<>>
    /\ asStopped' = TRUE
    /\ UNCHANGED <<pcMain, pcC, caLocal, ca, caStopped, gErr,
                   ctxDone, overview, retErr, now, probe, probeOut,
                   legacy, leaderboards,
                   again, query, filters>>

\* Iterate ran out of pages: listAppIns returns as, nil
AppInsReturn ==
    /\ pcA = "iterate"
    /\ pcA' = "returned"
    /\ as' = asLocal
    /\ asLocal' = <<>>
    /\ UNCHANGED <<pcMain, pcC, caLocal, ca, asStopped, caStopped, gErr,
                   ctxDone, overview, retErr, now, probe, probeOut,
                   legacy, leaderboards,
                   again, query, filters>>

\* listCAFinals: Items().Get and NewPageIterator succeed (lines 213-228)
CAFinalsGet ==
    /\ pcC = "get"
    /\ pcC' = "iterate"
    /\ caLocal' = <<>>
    /\ UNCHANGED <<pcMain, pcA, asLocal, as, ca, asStopped, caStopped, gErr,
                   ctxDone, overview, retErr, now, probe, probeOut,
                   legacy, leaderboards,
                   again, query, filters>>

CAFinalsFail ==
    /\ pcC \in {"get", "iterate"}
    /\ pcC' = "failed"
    /\ ca' = <<>>
    /\ caLocal' = <<>>
    /\ gErr' = groupErr("listCAFinals")
    /\ ctxDone' = TRUE
    /\ UNCHANGED <<pcMain, pcA, asLocal, as, asStopped, caStopped,
                   overview, retErr, now, probe, probeOut,
                   legacy, leaderboards,
                   again, query, filters>>

CAFinalsItem(item) ==
    /\ pcC = "iterate"
    /\ Len(asLocal) + Len(caLocal) + Len(as) + Len(ca) < MaxItems
    /\ caLocal' = Append(caLocal, item)
    /\ UNCHANGED <<pcMain, pcA, pcC, asLocal, as, ca, asStopped, caStopped, gErr,
                   ctxDone, overview, retErr, now, probe, probeOut,
                   legacy, leaderboards,
                   again, query, filters>>

CAFinalsStop ==
    /\ pcC = "iterate"
    /\ pcC' = "returned"
    /\ ca' = caLocal
    /\ caLocal' = <<>>
    /\ caStopped' = TRUE
    /\ UNCHANGED <<pcMain, pcA, asLocal, as, asStopped, gErr,
                   ctxDone, overview, retErr, now, probe, probeOut,
                   legacy, leaderboards,
                   again, query, filters>>

CAFinalsReturn ==
    /\ pcC = "iterate"
    /\ pcC' = "returned"
    /\ ca' = caLocal
    /\ caLocal' = <<>>
    /\ UNCHANGED <<pcMain, pcA, asLocal, as, asStopped, caStopped, gErr,
                   ctxDone, overview, retErr, now, probe, probeOut,
                   legacy, leaderboards,
                   again, query, filters>>

\* g.Wait() returning as soon as one goroutine has returned
waitReturnsFirst == pcA \in {"returned", "failed"} \/ pcC \in {"returned", "failed"}

\* g.Wait() returns once every goroutine started with g.Go has returned
waitReturns == pcA \in {"returned", "failed"} /\ pcC \in {"returned", "failed"}

\* lines 134-137: g.Wait() returns the first error, and GetOverview returns nil, err
WaitErr ==
    /\ pcMain = "wait"
    /\ waitReturns
    /\ gErr # NoErr
    /\ pcMain' = "done"
    /\ ctxDone' = TRUE
    /\ retErr' = gErr
    /\ overview' = <<>>
    /\ UNCHANGED <<pcA, pcC, asLocal, caLocal, as, ca, asStopped, caStopped, gErr,
                   now, probe, probeOut,
                   legacy, leaderboards,
                   again, query, filters>>

\* line 134: g.Wait() returns nil
WaitOk ==
    /\ pcMain = "wait"
    /\ waitReturns
    /\ gErr = NoErr
    /\ pcMain' = "waited"
    /\ ctxDone' = TRUE
    /\ UNCHANGED <<pcA, pcC, asLocal, caLocal, as, ca, asStopped, caStopped, gErr,
                   overview, retErr, now, probe, probeOut,
                   legacy, leaderboards,
                   again, query, filters>>

\* line 139: o := newOverview(as)
NewOverview ==
    /\ pcMain = "waited"
    /\ pcMain' = "built"
    /\ \E o \in newOverview(as, now) : overview' = <<o>>
    /\ UNCHANGED <<pcA, pcC, asLocal, caLocal, as, ca, asStopped, caStopped, gErr,
                   ctxDone, retErr, now, probe, probeOut,
                   legacy, leaderboards,
                   again, query, filters>>

\* lines 140-142: o.SetCAFinal(ca); return o, nil
SetCAFinalAndReturn ==
    /\ pcMain = "built"
    /\ pcMain' = "done"
    /\ \E o \in SetCAFinal(overview[1], ca, now) : overview' = <<o>>
    /\ retErr' = NoErr
    /\ UNCHANGED <<pcA, pcC, asLocal, caLocal, as, ca, asStopped, caStopped, gErr,
                   ctxDone, now, probe, probeOut,
                   legacy, leaderboards,
                   again, query, filters>>

Next ==
    \/ GoListAppIns
    \/ GoListCAFinals
    \/ AppInsGet
    \/ AppInsFail
    \/ \E item \in PagedAppInItems : AppInsItem(item)
    \/ AppInsStop
    \/ AppInsReturn
    \/ CAFinalsGet
    \/ CAFinalsFail
    \/ \E item \in PagedCAFinalItems : CAFinalsItem(item)
    \/ CAFinalsStop
    \/ CAFinalsReturn
    \/ WaitErr
    \/ WaitOk
    \/ NewOverview
    \/ SetCAFinalAndReturn

\* GetOverview from the call to the return, over every interleaving of the
\* two fetches
Spec == Init /\ [][Next]_vars

-----------------------------------------------------------------------------
(* The aggregation engine on every pair of fetched lists *)

\* both fetches have returned their lists and g.Wait() has returned nil
InitEngine ==
    /\ pcMain = "waited"
    /\ pcA = "returned"
    /\ pcC = "returned"
    /\ asLocal = <<>>
    /\ caLocal = <<>>
    /\ \E n \in 0..MaxItems :
          /\ as \in [1..n -> AppInItems]
          /\ ca \in SeqsUpTo(CAFinalItems, MaxItems - n)
    /\ asStopped = FALSE
    /\ caStopped = FALSE
    /\ gErr = NoErr
    /\ ctxDone = TRUE
    /\ overview = <<>>
    /\ retErr = NoErr
    /\ legacy = <<>>
    /\ leaderboards = <<>>
    /\ again = <<>>
    /\ query = ZeroQuery
    /\ filters = NoFilters
    /\ now \in Nows
    /\ probe = 0
    /\ probeOut = <<>>

NextEngine ==
    \/ NewOverview
    \/ SetCAFinalAndReturn

SpecEngine == InitEngine /\ [][NextEngine]_vars

-----------------------------------------------------------------------------
(* The four histogram builders on one record of every duration *)

MinProbe == 0 - Minute
MaxProbe == 5 * Hour + Minute

\* an Approved item completed d after its creation, a review likewise, and
\* an open item and an open review that are d old on the clock
probeIntervals(d) ==
    LET closed(status) == [Executor |-> "A", Status |-> status, CreatedAt |-> 0,
                           CompletedAt |-> <<d>>]
        open == [Executor |-> "A", Status |-> <<>>, CreatedAt |-> 0,
                 CompletedAt |-> <<>>]
    IN  [converted |-> createTimeIntervalsByConverted(<<closed(Approved)>>),
         pending |-> createTimeIntervalsByPending(<<open>>, d),
         caConverted |-> createCAFinalTimeIntervalsByConverted(<<closed(CompletedTitle)>>),
         caPending |-> createCAFinalTimeIntervalsByPending(<<open>>, d)]

InitBucket ==
    /\ InitService
    /\ now = 0
    /\ probe = MinProbe
    /\ probeOut = <<probeIntervals(MinProbe)>>

BuildIntervals ==
    /\ probe < MaxProbe
    /\ probe' = probe + 1
    /\ probeOut' = <<probeIntervals(probe + 1)>>
    /\ UNCHANGED <<pcMain, pcA, pcC, asLocal, caLocal, as, ca, asStopped, caStopped,
                   gErr, ctxDone, overview, retErr, now,
                   legacy, leaderboards,
                   again, query, filters>>

NextBucket == BuildIntervals

SpecBucket == InitBucket /\ [][NextBucket]_vars

-----------------------------------------------------------------------------
(* The conversion figures on records around the time thresholds *)

PendingTitle == <<"P","e","n","d","i","n","g">>

\* one tick, the one-minute floor, and either side of 30 minutes and of 1 hour
ThresholdElapsed == {1, Minute, 30 * Minute, 30 * Minute + 1, Hour, Hour + 1}

TimedAppInItems ==
    {withProduct(r, Loan, New) :
        r \in [Executor : {"A"}, Status : {Approved, NotPassedTitle}, CreatedAt : {0},
               CompletedAt : {<<e>> : e \in ThresholdElapsed}]
              \cup [Executor : {"A"}, Status : {<<>>, Approved}, CreatedAt : {0},
                    CompletedAt : {<<>>}]
              \cup [Executor : {"A"}, Status : {PendingTitle}, CreatedAt : {0},
                    CompletedAt : {<<30 * Minute>>}]}

TimedCAFinalItems ==
    [Executor : {"A"}, Status : {CompletedTitle}, CreatedAt : {0},
     CompletedAt : {<<e>> : e \in ThresholdElapsed} \cup {<<>>}]
    \cup [Executor : {"A"}, Status : {Uncompleted}, CreatedAt : {0},
          CompletedAt : {<<30 * Minute>>}]

InitTiming ==
    /\ pcMain = "waited"
    /\ pcA = "returned"
    /\ pcC = "returned"
    /\ asLocal = <<>>
    /\ caLocal = <<>>
    /\ \E n \in 0..MaxItems :
          /\ as \in [1..n -> TimedAppInItems]
          /\ ca \in SeqsUpTo(TimedCAFinalItems, MaxItems - n)
    /\ asStopped = FALSE
    /\ caStopped = FALSE
    /\ gErr = NoErr
    /\ ctxDone = TRUE
    /\ overview = <<>>
    /\ retErr = NoErr
    /\ legacy = <<>>
    /\ leaderboards = <<>>
    /\ again = <<>>
    /\ query = ZeroQuery
    /\ filters = NoFilters
    /\ now = 5 * Hour
    /\ probe = 0
    /\ probeOut = <<>>

\* the older newConversion on the fetched Application list
LegacyNewConversion ==
    /\ legacy = <<>>
    /\ legacy' = <<legacyNewConversion(as, now)>>
    /\ UNCHANGED <<pcMain, pcA, pcC, asLocal, caLocal, as, ca, asStopped, caStopped,
                   gErr, ctxDone, overview, retErr, now, probe, probeOut, leaderboards,
                   again, query, filters>>

NextTiming ==
    \/ NewOverview
    \/ SetCAFinalAndReturn
    \/ LegacyNewConversion

SpecTiming == InitTiming /\ [][NextTiming]_vars

-----------------------------------------------------------------------------
(* createLeaderboards on more performers than the leaderboard holds *)

MaxExecutors == LeaderboardLimit + 1
ExecutorNames == <<"A", "B", "C", "D", "E", "F">>

\* the records of one performer: converted in 30 minutes; the same with an
\* open record; converted in 5 hours; converted twice; nothing converted
RankProfiles ==
    LET closed(e) == [Executor |-> "", Status |-> Approved, CreatedAt |-> 0,
                      CompletedAt |-> <<e>>, Product |-> Loan, Type |-> New]
        open == [Executor |-> "", Status |-> Approved, CreatedAt |-> 0,
                 CompletedAt |-> <<>>, Product |-> Loan, Type |-> New]
    IN  << <<closed(30 * Minute)>>,
           <<closed(30 * Minute), open>>,
           <<closed(5 * Hour)>>,
           <<closed(30 * Minute), closed(5 * Hour)>>,
           <<open>> >>

\* the list in which the i-th executor has the records of profile choice[i]
RECURSIVE rankedList(_, _)
rankedList(choice, i) ==
    IF i > Len(choice) THEN <<>>
    ELSE [k \in DOMAIN RankProfiles[choice[i]] |->
             [RankProfiles[choice[i]][k] EXCEPT !.Executor = ExecutorNames[i]]]
         \o rankedList(choice, i + 1)

\* executor names are interchangeable, so the profiles are handed out in
\* non-decreasing order
InitRank ==
    /\ pcMain = "waited"
    /\ pcA = "returned"
    /\ pcC = "returned"
    /\ asLocal = <<>>
    /\ caLocal = <<>>
    /\ \E n \in 0..MaxExecutors :
          \E choice \in [1..n -> DOMAIN RankProfiles] :
              /\ \A i \in 1..(n - 1) : choice[i] <= choice[i + 1]
              /\ as = rankedList(choice, 1)
    /\ ca = <<>>
    /\ asStopped = FALSE
    /\ caStopped = FALSE
    /\ gErr = NoErr
    /\ ctxDone = TRUE
    /\ overview = <<>>
    /\ retErr = NoErr
    /\ legacy = <<>>
    /\ leaderboards = <<>>
    /\ again = <<>>
    /\ query = ZeroQuery
    /\ filters = NoFilters
    /\ now = 5 * Hour
    /\ probe = 0
    /\ probeOut = <<>>

\* newOverview lines 42-43 and 49: the leaderboard of the fetched list
CreateLeaderboards ==
    /\ leaderboards = <<>>
    /\ \E board \in createLeaderboards(
              calculatePerformanceConversionMetricsByExecutor(groupByExecutor(as), now)) :
          leaderboards' = <<board>>
    /\ UNCHANGED <<pcMain, pcA, pcC, asLocal, caLocal, as, ca, asStopped, caStopped,
                   gErr, ctxDone, overview, retErr, now, probe, probeOut, legacy,
                   again, query, filters>>

NextRank == CreateLeaderboards

SpecRank == InitRank /\ [][NextRank]_vars

-----------------------------------------------------------------------------
(* The product metrics on records of every product and type *)

SaleAutoTitle == <<"S","a","l","e"," ","A","u","t","o">>
C4CUsedCar == <<"C","4","C"," ","U","s","e","d"," ","C","a","r">>
MCUsedCar == <<"M","C"," ","U","s","e","d"," ","C","a","r">>
McTitle == <<"M","c">>

Products == {SaleAutoTitle, Loan}
\* no type; a type no alias matches; one matching "c4c" and "used car"; one
\* matching "used car" and "mc"; one matching "mc" alone
Types == {<<>>, New, C4CUsedCar, MCUsedCar, McTitle}

\* per product and type: converted in 30 minutes, converted in 5 hours,
\* not passed, and open
ProductItems ==
    {withProduct(r, product, type) :
        r \in [Executor : {"A"}, Status : {Approved}, CreatedAt : {0},
               CompletedAt : {<<30 * Minute>>, <<5 * Hour>>, <<>>}]
              \cup [Executor : {"A"}, Status : {NotPassedTitle}, CreatedAt : {0},
                    CompletedAt : {<<30 * Minute>>}],
        product \in Products, type \in Types}

InitProduct ==
    /\ pcMain = "waited"
    /\ pcA = "returned"
    /\ pcC = "returned"
    /\ asLocal = <<>>
    /\ caLocal = <<>>
    /\ as \in SeqsUpTo(ProductItems, MaxItems)
    /\ ca = <<>>
    /\ asStopped = FALSE
    /\ caStopped = FALSE
    /\ gErr = NoErr
    /\ ctxDone = TRUE
    /\ overview = <<>>
    /\ retErr = NoErr
    /\ legacy = <<>>
    /\ leaderboards = <<>>
    /\ again = <<>>
    /\ query = ZeroQuery
    /\ filters = NoFilters
    /\ now = 5 * Hour
    /\ probe = 0
    /\ probeOut = <<>>

NextProduct ==
    \/ NewOverview
    \/ SetCAFinalAndReturn

SpecProduct == InitProduct /\ [][NextProduct]_vars

-----------------------------------------------------------------------------
(* The filters of the two fetches for every Query *)

(* the engine on the four records of two performers: A with two converted
   records and one not passed, B with one converted record *)

\* an AppIn of the executor created at `created` and completed `elapsed` later
completedAppIn(executor, status, created, elapsed) ==
    withProduct([Executor |-> executor, Status |-> status, CreatedAt |-> created,
                 CompletedAt |-> <<created + elapsed>>], Loan, New)

\* the three converted records, created at the given time
ScenarioConverted(created) ==
    {completedAppIn("A", Approved, created, 10 * Minute),
     completedAppIn("A", Approved, created, 40 * Minute),
     completedAppIn("B", Approved, created, 20 * Minute)}

\* the not-passed record of A, completed or not
ScenarioNotPassed ==
    {withProduct(r, Loan, New) :
        r \in [Executor : {"A"}, Status : {NotPassedTitle, NotPassUpper},
               CreatedAt : {0}, CompletedAt : {<<>>, <<5 * Minute>>}]}

\* the lists holding the records each once, in any order
Arrangements(records) ==
    {list \in [1..Cardinality(records) -> records] :
        \A i, j \in DOMAIN list : list[i] = list[j] => i = j}

ScenarioLists ==
    UNION {Arrangements(ScenarioConverted(created) \cup {notPassed}) :
              created \in CreatedAts, notPassed \in ScenarioNotPassed}

InitScenario ==
    /\ pcMain = "waited"
    /\ pcA = "returned"
    /\ pcC = "returned"
    /\ asLocal = <<>>
    /\ caLocal = <<>>
    /\ as \in ScenarioLists
    /\ ca = <<>>
    /\ asStopped = FALSE
    /\ caStopped = FALSE
    /\ gErr = NoErr
    /\ ctxDone = TRUE
    /\ overview = <<>>
    /\ retErr = NoErr
    /\ now \in Nows
    /\ probe = 0
    /\ probeOut = <<>>
    /\ legacy = <<>>
    /\ leaderboards = <<>>
    /\ again = <<>>
    /\ query = ZeroQuery
    /\ filters = NoFilters

NextScenario == NewOverview \/ SetCAFinalAndReturn

SpecScenario == InitScenario /\ [][NextScenario]_vars

-----------------------------------------------------------------------------
QueryTimes == {<<>>, <<0>>, <<Hour>>, <<Day>>}
Queries == [CreatedAfter : QueryTimes, CreatedBefore : QueryTimes, Product : {<<>>, Loan}]

InitQuery ==
    /\ pcMain = "start"
    /\ pcA = "unstarted"
    /\ pcC = "unstarted"
    /\ asLocal = <<>>
    /\ caLocal = <<>>
    /\ as = <<>>
    /\ ca = <<>>
    /\ asStopped = FALSE
    /\ caStopped = FALSE
    /\ gErr = NoErr
    /\ ctxDone = FALSE
    /\ overview = <<>>
    /\ retErr = NoErr
    /\ legacy = <<>>
    /\ leaderboards = <<>>
    /\ again = <<>>
    /\ query \in Queries
    /\ filters = NoFilters
    /\ now \in {40 * Day, 40 * Day + 1}
    /\ probe = 0
    /\ probeOut = <<>>

\* listAppIns line 152: config := newReqConfig(q), Filter: q.String()
NewQueryParams ==
    /\ filters.appIn = <<>>
    /\ \E filter \in QueryString(query, now) :
          filters' = [filters EXCEPT !.appIn = <<filter>>]
    /\ UNCHANGED <<pcMain, pcA, pcC, asLocal, caLocal, as, ca, asStopped, caStopped,
                   gErr, ctxDone, overview, retErr, now, probe, probeOut,
                   legacy, leaderboards, again, query>>

\* listCAFinals line 211: config := newCAFinalReqConfig(q),
\* Filter: q.ToCAFinalQueryString()
NewCAFinalQueryParams ==
    /\ filters.caFinal = <<>>
    /\ filters' = [filters EXCEPT !.caFinal = <<ToCAFinalQueryString(query)>>]
    /\ UNCHANGED <<pcMain, pcA, pcC, asLocal, caLocal, as, ca, asStopped, caStopped,
                   gErr, ctxDone, overview, retErr, now, probe, probeOut,
                   legacy, leaderboards, again, query>>

NextQuery ==
    \/ NewQueryParams
    \/ NewCAFinalQueryParams

SpecQuery == InitQuery /\ [][NextQuery]_vars

-----------------------------------------------------------------------------
(* Building the Overview of one list twice *)

\* a second newOverview(as) on the list of the first, at the same instant
NewOverviewAgain ==
    /\ pcMain = "built"
    /\ again = <<>>
    /\ \E o \in newOverview(as, now) : again' = <<o>>
    /\ UNCHANGED <<pcMain, pcA, pcC, asLocal, caLocal, as, ca, asStopped, caStopped,
                   gErr, ctxDone, overview, retErr, now, probe, probeOut,
                   legacy, leaderboards, query, filters>>

NextTwice ==
    \/ NewOverview
    \/ NewOverviewAgain

SpecTwice == InitEngine /\ [][NextTwice]_vars

-----------------------------------------------------------------------------
(* Properties: vocabulary of the specification *)

\* GetOverview has returned an Overview
Done == pcMain = "done" /\ overview # <<>>

TheOverview == overview[1]
TheCAFinalOverview == overview[1].CAFinalOverview[1]

RECURSIVE SumTotals(_)
SumTotals(ts) == IF ts = <<>> THEN 0 ELSE Head(ts).Total + SumTotals(Tail(ts))

\* the number of records of the list that satisfy P
Count(records, P(_)) == Cardinality({i \in DOMAIN records : P(records[i])})

\* s contains the phrase, compared case-insensitively
ContainsFold(s, phrase) == Contains(ToLower(s), ToLower(phrase))
EqualFold(s, phrase) == ToLower(s) = ToLower(phrase)

PhraseNotPassed == <<"n","o","t"," ","p","a","s","s","e","d">>
PhraseNotPass == <<"n","o","t"," ","p","a","s","s">>
PhraseCompleted == <<"c","o","m","p","l","e","t","e","d">>

Completed(r) == r.CompletedAt # <<>>
Age(r) == now - r.CreatedAt
FiveHours == 5 * Hour

\* Application dispositions, with "not pass" as the marker of a failed application
IsConverted(r) ==
    r.Status # <<>> /\ ~ContainsFold(r.Status, PhraseNotPass) /\ Completed(r)
IsNotPassed(r) == ContainsFold(r.Status, PhraseNotPass)
IsPending(r) == r.Status = <<>> /\ ~Completed(r)
IsUnclassified(r) == ~IsConverted(r) /\ ~IsNotPassed(r) /\ ~IsPending(r)

\* Review dispositions
IsReviewConverted(r) == EqualFold(r.Status, PhraseCompleted) /\ Completed(r)
IsReviewPending(r) == ~EqualFold(r.Status, PhraseCompleted) /\ ~Completed(r)

-----------------------------------------------------------------------------
(* C1 *)

\* the dispositions the engine gives one Application record, read off the
\* counters it produces for the list holding that record alone
AppInDispositions(r) ==
    LET c == newConversion(<<r>>, now)
    IN  [converted |-> c.Converted,
         convertedInterval |-> SumTotals(createTimeIntervalsByConverted(<<r>>)),
         notPassed |-> c.NotPassed,
         pending |-> SumTotals(createTimeIntervalsByPending(<<r>>, now)),
         needAttention |-> c.NeedAttention]

CAFinalDispositions(r) ==
    LET c == newCAFinalConversion(<<r>>, now)
    IN  [converted |-> c.Converted,
         convertedInterval |-> SumTotals(createCAFinalTimeIntervalsByConverted(<<r>>)),
         pending |-> SumTotals(createCAFinalTimeIntervalsByPending(<<r>>, now)),
         needAttention |-> c.NeedAttention]

\* C1: in every Overview returned, each Application record is given at most
\* one of the dispositions converted, not-passed and pending by newConversion
\* and the histogram builders, and is counted in NeedAttention only if it is
\* pending; each Review record is given at most one of converted and pending
\* and is counted in NeedAttention only if it is pending.
C1_OneDisposition ==
    Done =>
        /\ \A i \in DOMAIN as :
              LET d == AppInDispositions(as[i])
              IN  /\ d.converted + d.notPassed + d.pending <= 1
                  /\ d.convertedInterval + d.notPassed + d.pending <= 1
                  /\ d.needAttention <= d.pending
        /\ \A i \in DOMAIN ca :
              LET d == CAFinalDispositions(ca[i])
              IN  /\ d.converted + d.pending <= 1
                  /\ d.convertedInterval + d.pending <= 1
                  /\ d.needAttention <= d.pending
        /\ TheOverview.Conversion.NeedAttention
              <= SumTotals(TheOverview.TimeIntervalsByPending)
        /\ TheCAFinalOverview.Conversion.NeedAttention
              <= SumTotals(TheCAFinalOverview.TimeIntervalsByPending)

\* an Overview over a not-passed application and a stale pending one
C1_Witness ==
    /\ Done
    /\ TheOverview.Conversion.NotPassed = 1
    /\ TheOverview.Conversion.NeedAttention = 1
    /\ SumTotals(TheOverview.TimeIntervalsByPending) = 1

-----------------------------------------------------------------------------
(* C2 *)

\* C2 as stated: Converted + NotPassed + the pending buckets equal Total for
\* every list of Application records.
C2_AccountsForEveryRecord ==
    Done =>
        TheOverview.Conversion.Converted + TheOverview.Conversion.NotPassed
            + SumTotals(TheOverview.TimeIntervalsByPending)
        = TheOverview.Conversion.Total

\* C2 amended: Converted + NotPassed + the pending buckets equal Total minus
\* the number of records in none of the three dispositions (a non-empty
\* status without "not pass" and no completion time, or an empty status with
\* a completion time); the sum never exceeds Total.
C2_AccountsForClassified ==
    Done =>
        /\ TheOverview.Conversion.Converted + TheOverview.Conversion.NotPassed
              + SumTotals(TheOverview.TimeIntervalsByPending)
           = TheOverview.Conversion.Total - Count(as, IsUnclassified)
        /\ \A i \in DOMAIN as :
              IsUnclassified(as[i]) <=>
                  \/ /\ as[i].Status # <<>>
                     /\ ~ContainsFold(as[i].Status, PhraseNotPass)
                     /\ ~Completed(as[i])
                  \/ as[i].Status = <<>> /\ Completed(as[i])

\* an Overview over one classified and one unclassified application
C2_Witness ==
    /\ Done
    /\ TheOverview.Conversion.Total = 2
    /\ Count(as, IsUnclassified) = 1
    /\ TheOverview.Conversion.Converted + TheOverview.Conversion.NotPassed
          + SumTotals(TheOverview.TimeIntervalsByPending) = 1

-----------------------------------------------------------------------------
(* C3 *)

\* C3 as stated: Converted counts exactly the records with a non-empty
\* status that does not contain "not passed" and with a completion time.
C3_ConvertedNotPassedPhrase ==
    Done =>
        LET P(r) == r.Status # <<>> /\ ~ContainsFold(r.Status, PhraseNotPassed)
                    /\ Completed(r)
        IN  TheOverview.Conversion.Converted = Count(as, P)

\* C3 amended: Converted (and the completed-duration histogram) counts
\* exactly the records with a non-empty status that does not contain
\* "not pass", compared case-insensitively, and with a completion time.
C3_ConvertedNotPassPhrase ==
    Done =>
        /\ TheOverview.Conversion.Converted = Count(as, IsConverted)
        /\ SumTotals(TheOverview.TimeIntervalsByConverted) = Count(as, IsConverted)

\* an Overview over a completed approved application and a completed one
\* whose status is NOT PASS
C3_Witness ==
    /\ Done
    /\ TheOverview.Conversion.Converted = 1
    /\ \E i \in DOMAIN as : as[i].Status = NotPassUpper /\ Completed(as[i])

-----------------------------------------------------------------------------
(* C4 *)

\* C4 as stated: NotPassed counts exactly the records whose status contains
\* "not passed", and the Review conversion reports NotPassed = 0.
C4_NotPassedPhrase ==
    Done =>
        LET P(r) == ContainsFold(r.Status, PhraseNotPassed)
        IN  /\ TheOverview.Conversion.NotPassed = Count(as, P)
            /\ TheCAFinalOverview.Conversion.NotPassed = 0

\* C4 amended: NotPassed counts exactly the records whose status contains
\* "not pass", compared case-insensitively, with or without a completion
\* time, and the Review conversion reports NotPassed = 0.
C4_NotPassPhrase ==
    Done =>
        /\ TheOverview.Conversion.NotPassed = Count(as, IsNotPassed)
        /\ TheCAFinalOverview.Conversion.NotPassed = 0

\* an Overview over a completed and an open not-passed application
C4_Witness ==
    /\ Done
    /\ TheOverview.Conversion.NotPassed = 2
    /\ \E i \in DOMAIN as : Completed(as[i])
    /\ \E i \in DOMAIN as : ~Completed(as[i])

-----------------------------------------------------------------------------
(* C5 *)

\* C5: a Review is converted iff its status equals "completed",
\* case-insensitively, and it has a completion time; it is pending iff its
\* status is not "completed" and it has no completion time; the conversion
\* and both Review histograms count by these rules.
C5_ReviewRules ==
    Done =>
        /\ TheCAFinalOverview.Conversion.Converted = Count(ca, IsReviewConverted)
        /\ SumTotals(TheCAFinalOverview.TimeIntervalsByConverted)
              = Count(ca, IsReviewConverted)
        /\ SumTotals(TheCAFinalOverview.TimeIntervalsByPending)
              = Count(ca, IsReviewPending)
        /\ LET Stale(r) == IsReviewPending(r) /\ Age(r) > FiveHours
           IN  TheCAFinalOverview.Conversion.NeedAttention = Count(ca, Stale)

\* an Overview over a completed review and a stale open review whose status
\* merely contains "completed"
C5_Witness ==
    /\ Done
    /\ TheCAFinalOverview.Conversion.Converted = 1
    /\ TheCAFinalOverview.Conversion.NeedAttention = 1
    /\ \E i \in DOMAIN ca : ca[i].Status = Uncompleted /\ ~Completed(ca[i])

-----------------------------------------------------------------------------
(* C6 *)

Finished(pc) == pc \in {"returned", "failed"}

\* C6: GetOverview composes the Overview only after both fetches have
\* finished; when it returns, it returns an error and no Overview if at least
\* one fetch failed, and otherwise an Overview over the whole list each fetch
\* returned.
C6_FanIn ==
    /\ pcMain \in {"waited", "built", "done"} => Finished(pcA) /\ Finished(pcC)
    /\ overview # <<>> =>
          /\ pcA = "returned" /\ pcC = "returned"
          /\ TheOverview.Conversion.Total = Len(as)
    /\ pcMain = "done" =>
          IF pcA = "failed" \/ pcC = "failed"
          THEN overview = <<>> /\ retErr # NoErr
          ELSE /\ retErr = NoErr
               /\ overview # <<>>
               /\ TheOverview.Conversion.Total = Len(as)
               /\ TheOverview.CAFinalOverview # <<>>
               /\ TheCAFinalOverview.Conversion.Total = Len(ca)

\* the Application fetch returned its items and the Review fetch failed:
\* GetOverview returns the error alone
C6_Witness ==
    /\ pcMain = "done"
    /\ pcA = "returned"
    /\ Len(as) > 0
    /\ pcC = "failed"
    /\ overview = <<>>
    /\ retErr = "listCAFinals"

-----------------------------------------------------------------------------
(* C7 *)

\* C7: NeedAttention is the number of pending records that are strictly more
\* than five hours old, for Applications and for Reviews.
C7_NeedAttention ==
    Done =>
        LET Stale(r) == IsPending(r) /\ Age(r) > FiveHours
            StaleReview(r) == IsReviewPending(r) /\ Age(r) > FiveHours
        IN  /\ TheOverview.Conversion.NeedAttention = Count(as, Stale)
            /\ TheCAFinalOverview.Conversion.NeedAttention = Count(ca, StaleReview)

\* two pending applications, one exactly five hours old and one older:
\* only the older one needs attention
C7_Witness ==
    /\ Done
    /\ Count(as, IsPending) = 2
    /\ \E i \in DOMAIN as : Age(as[i]) = FiveHours
    /\ \E i \in DOMAIN as : Age(as[i]) > FiveHours
    /\ TheOverview.Conversion.NeedAttention = 1

-----------------------------------------------------------------------------
(* C8 *)

BucketTitles == <<"<30min", "<1h", "<2h", "<3h", "<4h", "<5h", "5h+">>
BucketEdges == <<30 * Minute, Hour, 2 * Hour, 3 * Hour, 4 * Hour, 5 * Hour>>

\* the bucket of the half-open interval that holds d
BucketFor(d) ==
    BucketTitles[1 + Cardinality({i \in DOMAIN BucketEdges : BucketEdges[i] <= d})]

\* the histogram counts one record, in the bucket named title
CountsOnceIn(ts, title) ==
    /\ Len(ts) = Len(BucketTitles)
    /\ \A i \in DOMAIN ts :
          /\ ts[i].Title = BucketTitles[i]
          /\ ts[i].Total = IF BucketTitles[i] = title THEN 1 ELSE 0

\* C8: each of the four histogram builders puts a record of any duration in
\* exactly one bucket, the one whose half-open interval holds the duration.
C8_Bucketing ==
    probeOut # <<>> =>
        /\ CountsOnceIn(probeOut[1].converted, BucketFor(probe))
        /\ CountsOnceIn(probeOut[1].pending, BucketFor(probe))
        /\ CountsOnceIn(probeOut[1].caConverted, BucketFor(probe))
        /\ CountsOnceIn(probeOut[1].caPending, BucketFor(probe))

\* a duration of exactly 30 minutes is counted in <1h
C8_Witness ==
    /\ probeOut # <<>>
    /\ probe = 30 * Minute
    /\ probeOut[1].converted[2] = [Title |-> "<1h", Total |-> 1]
    /\ probeOut[1].caPending[2] = [Title |-> "<1h", Total |-> 1]

-----------------------------------------------------------------------------
(* C9 *)

\* the seven buckets in order, each with a count that is a natural number
WellFormed(ts) ==
    /\ Len(ts) = Len(BucketTitles)
    /\ \A i \in DOMAIN ts : ts[i].Title = BucketTitles[i] /\ ts[i].Total \in Nat

\* C9: every histogram of the Overview, and the histogram of every executor,
\* has the seven buckets in order with natural counts that sum to the number
\* of records of its list that are converted, respectively pending.
C9_Histograms ==
    Done =>
        LET perf == calculatePerformanceConversionMetricsByExecutor(
                        groupByExecutor(as), now)
            caPerf == calculateCAFinalConversionMetricsByExecutor(
                          groupByExecutor(ca), now)
        IN  /\ WellFormed(TheOverview.TimeIntervalsByConverted)
            /\ SumTotals(TheOverview.TimeIntervalsByConverted) = Count(as, IsConverted)
            /\ WellFormed(TheOverview.TimeIntervalsByPending)
            /\ SumTotals(TheOverview.TimeIntervalsByPending) = Count(as, IsPending)
            /\ WellFormed(TheCAFinalOverview.TimeIntervalsByConverted)
            /\ SumTotals(TheCAFinalOverview.TimeIntervalsByConverted)
                  = Count(ca, IsReviewConverted)
            /\ WellFormed(TheCAFinalOverview.TimeIntervalsByPending)
            /\ SumTotals(TheCAFinalOverview.TimeIntervalsByPending)
                  = Count(ca, IsReviewPending)
            /\ DOMAIN perf = {as[i].Executor : i \in DOMAIN as} \ {""}
            /\ \A e \in DOMAIN perf :
                  /\ WellFormed(perf[e].Performances)
                  /\ SumTotals(perf[e].Performances)
                        = Count(as, LAMBDA r : r.Executor = e /\ IsConverted(r))
            /\ DOMAIN caPerf = {ca[i].Executor : i \in DOMAIN ca} \ {""}
            /\ \A e \in DOMAIN caPerf :
                  /\ WellFormed(caPerf[e].Performances)
                  /\ SumTotals(caPerf[e].Performances)
                        = Count(ca, LAMBDA r : r.Executor = e /\ IsReviewConverted(r))

\* an Overview over a converted application of executor B and a pending
\* application of executor A
C9_Witness ==
    /\ Done
    /\ \E i \in DOMAIN as : as[i].Executor = "B" /\ IsConverted(as[i])
    /\ \E i \in DOMAIN as : as[i].Executor = "A" /\ IsPending(as[i])
    /\ SumTotals(TheOverview.TimeIntervalsByConverted) = 1
    /\ SumTotals(TheOverview.TimeIntervalsByPending) = 1

-----------------------------------------------------------------------------
(* C10 *)

InPercentRange(f) == f.den > 0 /\ 0 <= f.num /\ f.num <= 100 * f.den
IsZeroPercent(f) == f.num = 0

PercentsInRange(c, processed) ==
    /\ InPercentRange(c.Rate)
    /\ InPercentRange(c.FastestPercent)
    /\ c.Total = 0 => IsZeroPercent(c.Rate)
    /\ processed = 0 => IsZeroPercent(c.FastestPercent)

\* C10: Rate and FastestPercent of every conversion lie in [0, 100]; Rate is
\* 0 when Total is 0 and FastestPercent is 0 when nothing was processed
\* (converted + not-passed for Applications, converted for Reviews).
C10_Percentages ==
    Done =>
        LET c == TheOverview.Conversion
            r == TheCAFinalOverview.Conversion
        IN  /\ PercentsInRange(c, c.Converted + c.NotPassed)
            /\ PercentsInRange(r, r.Converted)

\* an Overview over one application that is not processed, and no review
C10_Witness ==
    /\ Done
    /\ TheOverview.Conversion.Total = 1
    /\ TheOverview.Conversion.Converted + TheOverview.Conversion.NotPassed = 0
    /\ TheOverview.Conversion.FastestPercent = ZeroFloat
    /\ TheCAFinalOverview.Conversion.Total = 0
    /\ TheCAFinalOverview.Conversion.Rate = ZeroFloat

-----------------------------------------------------------------------------
(* C11 *)

\* completion minus creation
ElapsedTime(r) == r.CompletedAt[1] - r.CreatedAt

\* records processed: converted or not passed for Applications, converted for Reviews
Processed(records) == Count(records, IsConverted) + Count(records, IsNotPassed)
ReviewProcessed(records) == Count(records, IsReviewConverted)

\* rate is n/d x 100
RateIs(rate, n, d) == rate.num * d = 100 * n * rate.den

\* C11: in every Overview returned over a non-empty list, the conversion rate
\* is processed/total x 100, where total is the length of the list and
\* processed is converted + not-passed for Applications and converted for
\* Reviews; an Application list of not-passed records only has rate 100.
C11_Rate ==
    Done =>
        /\ Len(as) > 0 => RateIs(TheOverview.Conversion.Rate, Processed(as), Len(as))
        /\ Len(ca) > 0 => RateIs(TheCAFinalOverview.Conversion.Rate,
                                  ReviewProcessed(ca), Len(ca))
        /\ (Len(as) > 0 /\ \A i \in DOMAIN as : IsNotPassed(as[i]))
              => TheOverview.Conversion.Rate = [num |-> 100, den |-> 1]

\* an Overview over two not-passed applications: none converted, rate 100
C11_Witness ==
    /\ Done
    /\ Len(as) = MaxItems
    /\ \A i \in DOMAIN as : IsNotPassed(as[i])
    /\ TheOverview.Conversion.Converted = 0
    /\ TheOverview.Conversion.Rate = [num |-> 100, den |-> 1]

-----------------------------------------------------------------------------
(* C12 *)

RECURSIVE SumElapsed(_)
SumElapsed(records) ==
    IF records = <<>> THEN 0 ELSE ElapsedTime(Head(records)) + SumElapsed(Tail(records))

\* sum / n by integer division, 0 when n is 0
AverageOf(sum, n) == IF n = 0 THEN 0 ELSE sum \div n

\* C12: in every Overview returned, AverageTime is sum/processed by integer
\* division, where sum adds completion minus creation over the converted
\* records only and processed is converted + not-passed for Applications and
\* converted for Reviews; AverageTime is 0 when processed is 0.
C12_AverageTime ==
    Done =>
        /\ TheOverview.Conversion.AverageTime
              = AverageOf(SumElapsed(SelectSeq(as, IsConverted)), Processed(as))
        /\ TheCAFinalOverview.Conversion.AverageTime
              = AverageOf(SumElapsed(SelectSeq(ca, IsReviewConverted)), ReviewProcessed(ca))

\* an Overview over one application converted in 30 minutes and one not
\* passed: the average is 15 minutes
C12_Witness ==
    /\ Done
    /\ Count(as, IsConverted) = 1
    /\ Count(as, IsNotPassed) = 1
    /\ SumElapsed(SelectSeq(as, IsConverted)) = 30 * Minute
    /\ TheOverview.Conversion.AverageTime = 15 * Minute

-----------------------------------------------------------------------------
(* C13 *)

\* the older model counts as converted a completed record whose status is
\* neither empty nor "pending"
PhrasePending == <<"p","e","n","d","i","n","g">>
IsLegacyConverted(r) ==
    r.Status # <<>> /\ ~EqualFold(r.Status, PhrasePending) /\ Completed(r)

HalfHour == 30 * Minute
OneHour == 60 * Minute

IsFastConverted(r) == IsConverted(r) /\ ElapsedTime(r) <= HalfHour
IsFastReviewConverted(r) == IsReviewConverted(r) /\ ElapsedTime(r) <= HalfHour
IsFastLegacyConverted(r) == IsLegacyConverted(r) /\ ElapsedTime(r) <= OneHour

-----------------------------------------------------------------------------
(* C14 *)

OneMinute == Minute

\* the elapsed times of at least one minute among the records satisfying P
QualifyingTimes(records, P(_)) ==
    {ElapsedTime(records[i]) :
        i \in {j \in DOMAIN records :
                  P(records[j]) /\ ElapsedTime(records[j]) >= OneMinute}}

\* the least member of a set of durations, 0 for the empty set
LeastOrZero(S) == IF S = {} THEN 0 ELSE CHOOSE m \in S : \A x \in S : m <= x

\* C14: in every Overview returned, whatever the order of the list,
\* Conversion.BestTime is the least elapsed time among the converted records
\* whose elapsed time is at least 1 minute, and 0 when there is none; a
\* converted record under 1 minute is never the best time and does not keep
\* a later qualifying record from being chosen.
C14_BestTime ==
    Done =>
        /\ TheOverview.Conversion.BestTime
              = LeastOrZero(QualifyingTimes(as, IsConverted))
        /\ TheCAFinalOverview.Conversion.BestTime
              = LeastOrZero(QualifyingTimes(ca, IsReviewConverted))

\* a converted application under 1 minute followed by one that qualifies:
\* the second is the best time
C14_Witness ==
    /\ Done
    /\ Len(as) = 2
    /\ IsConverted(as[1]) /\ ElapsedTime(as[1]) < OneMinute
    /\ IsConverted(as[2]) /\ ElapsedTime(as[2]) >= OneMinute
    /\ TheOverview.Conversion.BestTime = ElapsedTime(as[2])

-----------------------------------------------------------------------------
(* C15 *)

\* rate a is greater than rate b
RateAbove(a, b) == a.num * b.den > b.num * a.den

\* x comes before y under the leaderboard comparator: converted count
\* descending, then conversion rate descending, then average time ascending
Precedes(x, y) ==
    \/ x.converted > y.converted
    \/ x.converted = y.converted /\ RateAbove(x.rate, y.rate)
    \/ x.converted = y.converted /\ x.rate = y.rate /\ x.average < y.average

\* the sort key of a performer metric and of a leaderboard entry
MetricKey(metric) ==
    [converted |-> metric.Conversion.Converted, rate |-> metric.Conversion.Rate,
     average |-> metric.Conversion.AverageTime]
EntryKey(entry) ==
    [converted |-> entry.Converted, rate |-> entry.ConversionRate,
     average |-> entry.AverageTime]

LeastOf(a, b) == IF a <= b THEN a ELSE b

\* the performer-metric map handed to createLeaderboards
ThePerformers ==
    calculatePerformanceConversionMetricsByExecutor(groupByExecutor(as), now)

\* board is a leaderboard of the performer map: the top five at most, each
\* entry a performer of the map, ordered by the comparator, ranked 1..length,
\* and no performer left out comes before one that is in
IsLeaderboardOf(board, performers) ==
    LET names == {board[i].DisplayName : i \in DOMAIN board}
    IN  /\ Len(board) = LeastOf(5, Cardinality(DOMAIN performers))
        /\ names \subseteq DOMAIN performers
        /\ Cardinality(names) = Len(board)
        /\ \A i \in DOMAIN board :
              /\ board[i].Rank = i
              /\ EntryKey(board[i]) = MetricKey(performers[board[i].DisplayName])
        /\ \A i, j \in DOMAIN board :
              i < j => ~Precedes(EntryKey(board[j]), EntryKey(board[i]))
        /\ \A e \in DOMAIN performers \ names : \A i \in DOMAIN board :
              ~Precedes(MetricKey(performers[e]), EntryKey(board[i]))

\* C15: for every performer-metric map, createLeaderboards returns a list of
\* length min(5, number of performers), empty for no performer, ordered by
\* converted count descending, then conversion rate descending, then average
\* time ascending, ranked exactly 1..length in order, in which no omitted
\* performer comes before an included one under that comparator.
C15_Leaderboards ==
    leaderboards # <<>> => IsLeaderboardOf(leaderboards[1], ThePerformers)

\* six performers, five on the leaderboard, with neighbours that differ in
\* the converted count, in the rate only, and in the average time only
C15_Witness ==
    /\ leaderboards # <<>>
    /\ Cardinality(DOMAIN ThePerformers) = 6
    /\ Len(leaderboards[1]) = 5
    /\ LET key(i) == EntryKey(leaderboards[1][i])
       IN  /\ \E i \in 1..4 : key(i).converted > key(i + 1).converted
           /\ \E i \in 1..4 : /\ key(i).converted = key(i + 1).converted
                                /\ RateAbove(key(i).rate, key(i + 1).rate)
           /\ \E i \in 1..4 : /\ key(i).converted = key(i + 1).converted
                                /\ key(i).rate = key(i + 1).rate
                                /\ key(i).average < key(i + 1).average

-----------------------------------------------------------------------------
(* C16 *)

\* the performer-metric maps handed to getTopPerformer, createLeaderboards
\* and findBestTimeUsedByExecutor for a list of each stream
PerformersOf(records) ==
    calculatePerformanceConversionMetricsByExecutor(groupByExecutor(records), now)
ReviewPerformersOf(records) ==
    calculateCAFinalConversionMetricsByExecutor(groupByExecutor(records), now)

\* top names a performer of the map that no performer beats on the
\* converted count, nor on the rate at an equal converted count
IsTopOf(top, performers) ==
    /\ top.DisplayName \in DOMAIN performers
    /\ \A e \in DOMAIN performers :
          LET mine == performers[top.DisplayName].Conversion
              other == performers[e].Conversion
          IN  /\ other.Converted <= mine.Converted
              /\ other.Converted = mine.Converted => ~RateAbove(other.Rate, mine.Rate)

\* C16: whenever at least one performer exists, getTopPerformer returns the
\* display name of an existing performer such that no other performer has a
\* strictly greater converted count, and none with an equal converted count
\* has a strictly greater conversion rate.
C16_TopPerformer ==
    Done =>
        /\ DOMAIN PerformersOf(as) # {}
              => IsTopOf(TheOverview.TopPerformer, PerformersOf(as))
        /\ DOMAIN ReviewPerformersOf(ca) # {}
              => IsTopOf(TheCAFinalOverview.TopPerformer, ReviewPerformersOf(ca))

\* some performer of the map has converted a record or has a non-zero rate
SomeoneScores(performers) ==
    \E e \in DOMAIN performers :
        \/ performers[e].Conversion.Converted > 0
        \/ performers[e].Conversion.Rate.num > 0

\* what getTopPerformer returns: a top performer with its converted count
\* and rate when some performer scores, and otherwise no name at all
IsTopOrNoneOf(top, performers) ==
    IF SomeoneScores(performers)
    THEN /\ IsTopOf(top, performers)
         /\ top.Converted = performers[top.DisplayName].Conversion.Converted
         /\ top.ConversionRate = performers[top.DisplayName].Conversion.Rate
    ELSE top.DisplayName = "" /\ top.Converted = 0 /\ top.ConversionRate.num = 0

\* C16, as the code behaves: getTopPerformer returns a performer that none
\* beats on the converted count, nor on the rate at an equal converted
\* count, whenever some performer has a non-zero converted count or rate;
\* when every performer has converted 0 and rate 0 it returns an empty
\* display name although performers exist.
C16_TopPerformerOrNone ==
    Done =>
        /\ IsTopOrNoneOf(TheOverview.TopPerformer, PerformersOf(as))
        /\ IsTopOrNoneOf(TheCAFinalOverview.TopPerformer, ReviewPerformersOf(ca))

\* a performer exists and none has converted anything: the top performer
\* has no name
C16_Witness ==
    /\ Done
    /\ DOMAIN PerformersOf(as) # {}
    /\ ~SomeoneScores(PerformersOf(as))
    /\ TheOverview.TopPerformer.DisplayName = ""

-----------------------------------------------------------------------------
(* C17 *)

\* best names the performer with the least non-zero BestTime and carries
\* that duration; it is named "N/A" when no performer has a non-zero BestTime
IsBestTimeOf(best, performers) ==
    LET timed == {e \in DOMAIN performers : performers[e].Conversion.BestTime # 0}
    IN  IF timed = {}
        THEN best.DisplayName = "N/A"
        ELSE /\ best.DisplayName \in timed
             /\ best.BestTime = performers[best.DisplayName].Conversion.BestTime
             /\ \A e \in timed : best.BestTime <= performers[e].Conversion.BestTime

\* C17: findBestTimeUsedByExecutor returns the performer whose BestTime is
\* the smallest non-zero BestTime of all performers, with that duration; when
\* no performer has a non-zero BestTime, performers existing or not, it
\* returns the display name "N/A".
C17_BestTimeUsed ==
    Done =>
        /\ IsBestTimeOf(TheOverview.BestTimeUsed, PerformersOf(as))
        /\ IsBestTimeOf(TheCAFinalOverview.BestTimeUsed, ReviewPerformersOf(ca))

\* what findBestTimeUsedByExecutor returns: "N/A" only for the empty map,
\* and an empty name with a zero duration when performers exist but none
\* has a non-zero BestTime
IsBestTimeOrNoneOf(best, performers) ==
    LET timed == {e \in DOMAIN performers : performers[e].Conversion.BestTime # 0}
    IN  IF timed # {} THEN IsBestTimeOf(best, performers)
        ELSE /\ best.BestTime = 0
             /\ best.DisplayName = IF DOMAIN performers = {} THEN "N/A" ELSE ""

\* C17, as the code behaves: findBestTimeUsedByExecutor returns the performer
\* with the smallest non-zero BestTime and that duration; it returns "N/A"
\* for an empty map only, and an empty display name with duration 0 when
\* performers exist but none has a non-zero BestTime.
C17_BestTimeUsedOrNone ==
    Done =>
        /\ IsBestTimeOrNoneOf(TheOverview.BestTimeUsed, PerformersOf(as))
        /\ IsBestTimeOrNoneOf(TheCAFinalOverview.BestTimeUsed, ReviewPerformersOf(ca))

\* a performer exists and none has a best time: the best-time performer has
\* no name and a zero duration
C17_Witness ==
    /\ Done
    /\ DOMAIN PerformersOf(as) # {}
    /\ \A e \in DOMAIN PerformersOf(as) : PerformersOf(as)[e].Conversion.BestTime = 0
    /\ TheOverview.BestTimeUsed.DisplayName = ""
    /\ TheOverview.BestTimeUsed.BestTime = 0

-----------------------------------------------------------------------------
(* C18 *)

HasExecutor(r) == r.Executor # ""

\* the distinct non-empty Executor values of a list
ExecutorsOf(records) == {records[i].Executor : i \in DOMAIN records} \ {""}

\* C18: in every Overview returned, a record with an empty Executor counts
\* in the overall Conversion (total, converted, not-passed) and the overall
\* histograms, and in no performer group: ActiveExecutor is the number of
\* distinct non-empty Executor values, and TopPerformer, Leaderboards and
\* BestTimeUsed are among those the list without such records yields.  The
\* same holds of the Review stream.
C18_EmptyExecutor ==
    Done =>
        /\ TheOverview.Conversion.Total = Len(as)
        /\ TheOverview.Conversion.Converted = Count(as, IsConverted)
        /\ TheOverview.Conversion.NotPassed = Count(as, IsNotPassed)
        /\ SumTotals(TheOverview.TimeIntervalsByConverted) = Count(as, IsConverted)
        /\ TheOverview.ActiveExecutor = Cardinality(ExecutorsOf(as))
        /\ LET performers == PerformersOf(SelectSeq(as, HasExecutor))
           IN  /\ TheOverview.TopPerformer \in getTopPerformer(performers)
               /\ TheOverview.Leaderboards \in createLeaderboards(performers)
               /\ TheOverview.BestTimeUsed \in findBestTimeUsedByExecutor(performers)
        /\ \A i \in DOMAIN TheOverview.Leaderboards :
              TheOverview.Leaderboards[i].DisplayName \in ExecutorsOf(as)
        /\ TheCAFinalOverview.Conversion.Total = Len(ca)
        /\ TheCAFinalOverview.Conversion.Converted = Count(ca, IsReviewConverted)
        /\ TheCAFinalOverview.ActiveExecutor = Cardinality(ExecutorsOf(ca))
        /\ LET performers == ReviewPerformersOf(SelectSeq(ca, HasExecutor))
           IN  /\ TheCAFinalOverview.TopPerformer \in getTopPerformer(performers)
               /\ TheCAFinalOverview.Leaderboards \in createLeaderboards(performers)
               /\ TheCAFinalOverview.BestTimeUsed
                     \in findBestTimeUsedByExecutor(performers)
        /\ \A i \in DOMAIN TheCAFinalOverview.Leaderboards :
              TheCAFinalOverview.Leaderboards[i].DisplayName \in ExecutorsOf(ca)

\* a converted application without executor beside one of executor A: two
\* records in the totals, one active executor, one leaderboard entry
C18_Witness ==
    /\ Done
    /\ Len(as) = 2
    /\ \E i \in DOMAIN as : ~HasExecutor(as[i]) /\ IsConverted(as[i])
    /\ \E i \in DOMAIN as : HasExecutor(as[i])
    /\ TheOverview.Conversion.Total = 2
    /\ TheOverview.Conversion.Converted >= 1
    /\ TheOverview.ActiveExecutor = 1
    /\ Len(TheOverview.Leaderboards) = 1

-----------------------------------------------------------------------------
(* C19 *)

PhraseSaleAuto == <<"s","a","l","e"," ","a","u","t","o">>
PhraseC4C == <<"c","4","c">>
PhraseUsedCar == <<"u","s","e","d"," ","c","a","r">>
PhraseMC == <<"m","c">>
LabelC4C == <<"C","4","C"," ","|"," ">>
LabelUsedCar == <<"U","s","e","d"," ","C","a","r"," ","|"," ">>
LabelMC == <<"M","C"," ","|"," ">>

HasType(r) == r.Type # <<>>

\* the key of the product group of a record
GroupKey(r) ==
    IF ~EqualFold(r.Product, PhraseSaleAuto) THEN r.Product
    ELSE IF ContainsFold(r.Type, PhraseC4C) THEN LabelC4C \o r.Product
    ELSE IF ContainsFold(r.Type, PhraseUsedCar) THEN LabelUsedCar \o r.Product
    ELSE IF ContainsFold(r.Type, PhraseMC) THEN LabelMC \o r.Product
    ELSE r.Product

\* the keys of the records with a type, and the records under one key
GroupKeys(records) ==
    {GroupKey(records[i]) : i \in {j \in DOMAIN records : HasType(records[j])}}
GroupUnder(records, key) ==
    SelectSeq(records, LAMBDA r : HasType(r) /\ GroupKey(r) = key)

\* C19: groupAppInByProduct puts every record with a non-empty type in
\* exactly one group and every record with an empty type in none; the key is
\* the raw product label unless the product is "sale auto" in any case, and
\* then "C4C | <product>" if the type contains "c4c", else
\* "Used Car | <product>" if it contains "used car", else "MC | <product>" if
\* it contains "mc" (in any case, tested in that order), else the raw label.
C19_ProductGroups ==
    Done =>
        LET groups == groupAppInByProduct(as)
            metrics == TheOverview.ProductMetrics
        IN  /\ DOMAIN groups = GroupKeys(as)
            /\ \A key \in DOMAIN groups : groups[key] = GroupUnder(as, key)
            /\ {metrics[i].Name : i \in DOMAIN metrics} = GroupKeys(as)
            /\ \A i \in DOMAIN metrics :
                  metrics[i].Total = Len(GroupUnder(as, metrics[i].Name))
            /\ SumTotals(metrics) = Count(as, HasType)

\* a "Sale Auto" record whose type matches "used car" and "mc" is keyed
\* "Used Car | Sale Auto"; the record without type beside it is in no group
C19_Witness ==
    /\ Done
    /\ Len(as) = 2
    /\ \E i \in DOMAIN as : ~HasType(as[i])
    /\ \E i \in DOMAIN as :
          /\ EqualFold(as[i].Product, PhraseSaleAuto)
          /\ ContainsFold(as[i].Type, PhraseUsedCar)
          /\ ContainsFold(as[i].Type, PhraseMC)
    /\ Len(TheOverview.ProductMetrics) = 1
    /\ TheOverview.ProductMetrics[1].Name = LabelUsedCar \o SaleAutoTitle
    /\ TheOverview.ProductMetrics[1].Total = 1

-----------------------------------------------------------------------------
(* C20 *)

ProductKey(entry) ==
    [converted |-> entry.Converted, rate |-> entry.ConversionRate,
     average |-> entry.AverageTime]

\* entry carries the figures of the product group of its name
CarriesGroup(entry, records) ==
    LET group == GroupUnder(records, entry.Name)
    IN  /\ entry.Total = Len(group)
        /\ entry.Converted = Count(group, IsConverted)
        /\ entry.NotPassed = Count(group, IsNotPassed)
        /\ RateIs(entry.ConversionRate, Processed(group), Len(group))
        /\ entry.AverageTime
              = AverageOf(SumElapsed(SelectSeq(group, IsConverted)), Processed(group))

\* C20: ProductMetrics holds exactly one entry per product group, carrying
\* the group's total, converted, not-passed, rate and average time, and the
\* entries are ordered by converted descending, then conversion rate
\* descending, then average time ascending.
C20_ProductMetrics ==
    Done =>
        LET metrics == TheOverview.ProductMetrics
        IN  /\ {metrics[i].Name : i \in DOMAIN metrics} = GroupKeys(as)
            /\ Len(metrics) = Cardinality(GroupKeys(as))
            /\ \A i \in DOMAIN metrics : CarriesGroup(metrics[i], as)
            /\ \A i, j \in DOMAIN metrics :
                  i < j => ~Precedes(ProductKey(metrics[j]), ProductKey(metrics[i]))

\* two product groups with the same converted count and rate: the one with
\* the lower average time comes first
C20_Witness ==
    /\ Done
    /\ Len(TheOverview.ProductMetrics) = 2
    /\ LET first == TheOverview.ProductMetrics[1]
           second == TheOverview.ProductMetrics[2]
       IN  /\ first.Converted = 1 /\ second.Converted = 1
           /\ first.ConversionRate = second.ConversionRate
           /\ first.AverageTime < second.AverageTime

-----------------------------------------------------------------------------
(* C21 *)

TheSecondOverview == again[1]

\* the sort keys of the entries of a list, in order
EntryKeys(board) == [i \in DOMAIN board |-> EntryKey(board[i])]
ProductKeys(metrics) == [i \in DOMAIN metrics |-> ProductKey(metrics[i])]

\* no two performers of the list tie on converted count and rate or on a
\* non-zero best time, and no two product groups tie on the three sort keys
NoTies(records) ==
    LET performers == PerformersOf(records)
        keys == GroupKeys(records)
        keyOf(key) ==
            LET group == GroupUnder(records, key)
            IN  <<Count(group, IsConverted), Count(group, IsNotPassed), Len(group),
                  SumElapsed(SelectSeq(group, IsConverted))>>
    IN  /\ \A e, f \in DOMAIN performers :
              e # f =>
                  /\ \/ performers[e].Conversion.Converted # performers[f].Conversion.Converted
                     \/ performers[e].Conversion.Rate # performers[f].Conversion.Rate
                  /\ \/ performers[e].Conversion.BestTime # performers[f].Conversion.BestTime
                     \/ performers[e].Conversion.BestTime = 0
        /\ \A k, l \in keys : k # l => keyOf(k) # keyOf(l)

\* C21: building the Overview twice from the same record list at the same
\* current time yields the same output in every field, including
\* TopPerformer, BestTimeUsed, the order of Leaderboards and the order of
\* ProductMetrics.
C21_Idempotent ==
    again # <<>> => TheSecondOverview = TheOverview

\* C21, as the code behaves: the two Overviews agree on ActiveExecutor,
\* Conversion, both histograms, the figures of TopPerformer and BestTimeUsed
\* and the sort keys along Leaderboards and ProductMetrics; they agree in
\* every field when no two performers and no two products tie.
C21_IdempotentUpToTies ==
    again # <<>> =>
        /\ TheSecondOverview.ActiveExecutor = TheOverview.ActiveExecutor
        /\ TheSecondOverview.Conversion = TheOverview.Conversion
        /\ TheSecondOverview.TimeIntervalsByConverted = TheOverview.TimeIntervalsByConverted
        /\ TheSecondOverview.TimeIntervalsByPending = TheOverview.TimeIntervalsByPending
        /\ TheSecondOverview.TopPerformer.Converted = TheOverview.TopPerformer.Converted
        /\ TheSecondOverview.TopPerformer.ConversionRate
              = TheOverview.TopPerformer.ConversionRate
        /\ TheSecondOverview.BestTimeUsed.BestTime = TheOverview.BestTimeUsed.BestTime
        /\ EntryKeys(TheSecondOverview.Leaderboards) = EntryKeys(TheOverview.Leaderboards)
        /\ ProductKeys(TheSecondOverview.ProductMetrics)
              = ProductKeys(TheOverview.ProductMetrics)
        /\ NoTies(as) => TheSecondOverview = TheOverview

\* two builds of one list whose two performers tie: the leaderboards list
\* them in opposite orders
C21_Witness ==
    /\ again # <<>>
    /\ Len(TheOverview.Leaderboards) = 2
    /\ TheOverview.Leaderboards[1].DisplayName
          = TheSecondOverview.Leaderboards[2].DisplayName
    /\ TheOverview.Leaderboards[2].DisplayName
          = TheSecondOverview.Leaderboards[1].DisplayName

-----------------------------------------------------------------------------
(* C22 *)

\* the histogram has the seven buckets in order, all at 0
AllBucketsZero(histogram) ==
    /\ [i \in DOMAIN histogram |-> histogram[i].Title] = BucketTitles
    /\ \A i \in DOMAIN histogram : histogram[i].Total = 0

\* every figure of the Conversion is 0
AllCountsZero(c) ==
    /\ c.Total = 0 /\ c.Converted = 0 /\ c.NotPassed = 0 /\ c.NeedAttention = 0
    /\ c.Fastest = 0 /\ c.AverageTime = 0 /\ c.BestTime = 0
    /\ c.Rate.num = 0 /\ c.FastestPercent.num = 0

\* C22: for an empty Application list newOverview returns an Overview with
\* ActiveExecutor 0, Conversion.Total 0, Conversion.Rate 0, every other
\* Conversion count 0, empty Leaderboards, empty ProductMetrics and both
\* histograms present with all seven buckets at 0; likewise
\* newCAFinalOverview for an empty Review list.
C22_EmptyInput ==
    Done =>
        /\ as = <<>> =>
              /\ TheOverview.ActiveExecutor = 0
              /\ AllCountsZero(TheOverview.Conversion)
              /\ TheOverview.Leaderboards = <<>>
              /\ TheOverview.ProductMetrics = <<>>
              /\ AllBucketsZero(TheOverview.TimeIntervalsByConverted)
              /\ AllBucketsZero(TheOverview.TimeIntervalsByPending)
        /\ ca = <<>> =>
              /\ TheCAFinalOverview.ActiveExecutor = 0
              /\ AllCountsZero(TheCAFinalOverview.Conversion)
              /\ TheCAFinalOverview.Leaderboards = <<>>
              /\ AllBucketsZero(TheCAFinalOverview.TimeIntervalsByConverted)
              /\ AllBucketsZero(TheCAFinalOverview.TimeIntervalsByPending)

\* GetOverview has returned the Overview of two empty lists
C22_Witness ==
    /\ Done
    /\ as = <<>>
    /\ ca = <<>>
    /\ Len(TheOverview.TimeIntervalsByConverted) = 7
    /\ Len(TheCAFinalOverview.TimeIntervalsByPending) = 7

-----------------------------------------------------------------------------
(* C23 *)

NotApplicable == "N/A"

\* C23: for empty input, TopPerformer and BestTimeUsed both carry the
\* display name "N/A", in the Overview and in the nested Review overview.
C23_NotApplicable ==
    Done =>
        /\ as = <<>> =>
              /\ TheOverview.TopPerformer.DisplayName = NotApplicable
              /\ TheOverview.BestTimeUsed.DisplayName = NotApplicable
        /\ ca = <<>> =>
              /\ TheCAFinalOverview.TopPerformer.DisplayName = NotApplicable
              /\ TheCAFinalOverview.BestTimeUsed.DisplayName = NotApplicable

\* C23, as the code behaves: for empty input BestTimeUsed carries the display
\* name "N/A" with duration 0, and TopPerformer carries an empty display
\* name with converted 0 and rate 0.
C23_NotApplicableBestTimeOnly ==
    Done =>
        /\ as = <<>> =>
              /\ TheOverview.TopPerformer.DisplayName = ""
              /\ TheOverview.TopPerformer.Converted = 0
              /\ TheOverview.TopPerformer.ConversionRate.num = 0
              /\ TheOverview.BestTimeUsed.DisplayName = NotApplicable
              /\ TheOverview.BestTimeUsed.BestTime = 0
        /\ ca = <<>> =>
              /\ TheCAFinalOverview.TopPerformer.DisplayName = ""
              /\ TheCAFinalOverview.BestTimeUsed.DisplayName = NotApplicable
              /\ TheCAFinalOverview.BestTimeUsed.BestTime = 0

\* the Overview of an empty Application list: the top performer has no name
C23_Witness ==
    /\ Done
    /\ as = <<>>
    /\ TheOverview.TopPerformer.DisplayName = ""
    /\ TheOverview.BestTimeUsed.DisplayName = NotApplicable

-----------------------------------------------------------------------------
(* C24 *)

Hundred == [num |-> 100, den |-> 1]

\* the list is the scenario's: three records of A, two converted in 10 and
\* 40 minutes and one not passed, and one record of B converted in 20 minutes
IsScenario(records) ==
    LET ofA == SelectSeq(records, LAMBDA r : r.Executor = "A")
        ofB == SelectSeq(records, LAMBDA r : r.Executor = "B")
        times(rs) == {ElapsedTime(rs[i]) : i \in {j \in DOMAIN rs : IsConverted(rs[j])}}
    IN  /\ Len(records) = 4 /\ Len(ofA) = 3 /\ Len(ofB) = 1
        /\ Count(ofA, IsConverted) = 2 /\ Count(ofA, IsNotPassed) = 1
        /\ times(ofA) = {10 * Minute, 40 * Minute}
        /\ times(ofB) = {20 * Minute}

\* C24: for three records of performer A (two converted in 10 and 40
\* minutes, one not passed) and one record of performer B (converted in 20
\* minutes), newOverview yields A: converted 2, not-passed 1, rate 100;
\* B: converted 1, rate 100; Leaderboards [A rank 1, B rank 2]; BestTimeUsed
\* performer A with 10 minutes.
C24_Scenario ==
    (overview # <<>> /\ IsScenario(as)) =>
        LET board == TheOverview.Leaderboards
        IN  /\ PerformersOf(as)["A"].Conversion.Converted = 2
            /\ PerformersOf(as)["A"].Conversion.NotPassed = 1
            /\ PerformersOf(as)["A"].Conversion.Rate = Hundred
            /\ PerformersOf(as)["B"].Conversion.Converted = 1
            /\ PerformersOf(as)["B"].Conversion.Rate = Hundred
            /\ Len(board) = 2
            /\ board[1].DisplayName = "A" /\ board[1].Rank = 1
            /\ board[1].Converted = 2 /\ board[1].ConversionRate = Hundred
            /\ board[2].DisplayName = "B" /\ board[2].Rank = 2
            /\ board[2].Converted = 1 /\ board[2].ConversionRate = Hundred
            /\ TheOverview.BestTimeUsed = [DisplayName |-> "A", BestTime |-> 10 * Minute]

\* the Overview of the scenario's list with B's record first and the
\* not-passed record of A second
C24_Witness ==
    /\ Done
    /\ IsScenario(as)
    /\ as[1].Executor = "B"
    /\ IsNotPassed(as[2])
    /\ TheOverview.Leaderboards[1].DisplayName = "A"

-----------------------------------------------------------------------------
(* C25 *)

\* the fields of the Overview that describe the Application stream
ApplicationFields(o) ==
    [ActiveExecutor |-> o.ActiveExecutor,
     TopPerformer |-> o.TopPerformer,
     Conversion |-> o.Conversion,
     TimeIntervalsByConverted |-> o.TimeIntervalsByConverted,
     TimeIntervalsByPending |-> o.TimeIntervalsByPending,
     BestTimeUsed |-> o.BestTimeUsed,
     Leaderboards |-> o.Leaderboards,
     ProductMetrics |-> o.ProductMetrics]

\* the Overview with no nested Review overview attached
Detached(o) == [o EXCEPT !.CAFinalOverview = <<>>]

\* C25: SetCAFinal attaches a nested Review overview computed from the
\* Review list alone, with no product metrics, and leaves every other field
\* of the Overview unchanged; the Application fields are those of an Overview
\* of the Application list alone and the nested overview is one of the
\* Review list alone.
C25_SetCAFinalFrame ==
    [][(pcMain = "built" /\ pcMain' = "done") =>
          /\ overview[1].CAFinalOverview = <<>>
          /\ ApplicationFields(overview'[1]) = ApplicationFields(overview[1])
          /\ Detached(overview'[1]) = overview[1]
          /\ Detached(overview'[1]) \in newOverview(as, now)
          /\ Len(overview'[1].CAFinalOverview) = 1
          /\ overview'[1].CAFinalOverview[1] \in newCAFinalOverview(ca, now)
          /\ "ProductMetrics" \notin DOMAIN overview'[1].CAFinalOverview[1]]_vars

\* SetCAFinal has attached the overview of one review to the Overview of one
\* application, and the two Conversions differ
C25_Witness ==
    /\ Done
    /\ Len(as) = 1
    /\ Len(ca) = 1
    /\ TheOverview.Conversion.Converted = 0
    /\ TheCAFinalOverview.Conversion.Converted = 1
    /\ TheOverview.ProductMetrics # <<>>

-----------------------------------------------------------------------------
(* C26 *)

\* the histogram counts as many records as the Conversion has converted,
\* overall and in every leaderboard entry
HistogramMatchesConverted(o) ==
    /\ SumTotals(o.TimeIntervalsByConverted) = o.Conversion.Converted
    /\ \A i \in DOMAIN o.Leaderboards :
          SumTotals(o.Leaderboards[i].Performances) = o.Leaderboards[i].Converted

\* C26: in every Overview the bucket counts of the completed-duration
\* histogram sum to Conversion.Converted of the same list, overall and for
\* every leaderboard entry (the sum of its Performances is its Converted),
\* for the Application and for the Review stream.
C26_HistogramSum ==
    Done =>
        /\ HistogramMatchesConverted(TheOverview)
        /\ HistogramMatchesConverted(TheCAFinalOverview)

\* an Overview with a converted application and a converted review, each a
\* leaderboard entry, next to a completed application that has no status
C26_Witness ==
    /\ Done
    /\ TheOverview.Conversion.Converted = 1
    /\ TheCAFinalOverview.Conversion.Converted = 1
    /\ TheOverview.Leaderboards # <<>>
    /\ TheOverview.Leaderboards[1].Converted = 1
    /\ TheCAFinalOverview.Leaderboards # <<>>
    /\ TheCAFinalOverview.Leaderboards[1].Converted = 1

-----------------------------------------------------------------------------
(* C27 *)

\* the count of the last bucket, "5h+"
LastBucket(histogram) == histogram[Len(histogram)].Total

IsPendingAtFiveHours(r) == IsPending(r) /\ Age(r) = FiveHours
IsReviewPendingAtFiveHours(r) == IsReviewPending(r) /\ Age(r) = FiveHours

\* C27: at one current time, Conversion.NeedAttention is at most the count
\* of the "5h+" bucket of the pending-age histogram of the same list, and the
\* two differ by the number of pending records aged exactly 5 hours.
C27_NeedAttentionBucket ==
    Done =>
        /\ TheOverview.TimeIntervalsByPending[7].Title = "5h+"
        /\ TheOverview.Conversion.NeedAttention
              <= LastBucket(TheOverview.TimeIntervalsByPending)
        /\ LastBucket(TheOverview.TimeIntervalsByPending)
              - TheOverview.Conversion.NeedAttention
              = Count(as, IsPendingAtFiveHours)
        /\ TheCAFinalOverview.TimeIntervalsByPending[7].Title = "5h+"
        /\ TheCAFinalOverview.Conversion.NeedAttention
              <= LastBucket(TheCAFinalOverview.TimeIntervalsByPending)
        /\ LastBucket(TheCAFinalOverview.TimeIntervalsByPending)
              - TheCAFinalOverview.Conversion.NeedAttention
              = Count(ca, IsReviewPendingAtFiveHours)

\* two pending applications, one aged exactly 5 hours and one a tick older:
\* both are in the last bucket and one needs attention
C27_Witness ==
    /\ Done
    /\ Count(as, IsPendingAtFiveHours) = 1
    /\ LastBucket(TheOverview.TimeIntervalsByPending) = 2
    /\ TheOverview.Conversion.NeedAttention = 1

\* a pending review aged exactly 5 hours is in the last bucket and does not
\* need attention
C27_WitnessReview ==
    /\ Done
    /\ Count(ca, IsReviewPendingAtFiveHours) = 1
    /\ LastBucket(TheCAFinalOverview.TimeIntervalsByPending) = 1
    /\ TheCAFinalOverview.Conversion.NeedAttention = 0

-----------------------------------------------------------------------------
(* C28 *)

SameRate(a, b) == a.num * b.den = b.num * a.den

\* top and the first entry of the board carry the same converted count and
\* rate; they name different performers only if two performers of the map
\* carry these values or every performer has converted 0 and rate 0
TopAgreesWithBoard(top, board, performers) ==
    board # <<>> =>
        /\ board[1].Rank = 1
        /\ top.Converted = board[1].Converted
        /\ SameRate(top.ConversionRate, board[1].ConversionRate)
        /\ top.DisplayName # board[1].DisplayName =>
              \/ \E e, f \in DOMAIN performers :
                    /\ e # f
                    /\ \A g \in {e, f} :
                          /\ performers[g].Conversion.Converted = top.Converted
                          /\ SameRate(performers[g].Conversion.Rate, top.ConversionRate)
              \/ \A e \in DOMAIN performers :
                    /\ performers[e].Conversion.Converted = 0
                    /\ performers[e].Conversion.Rate.num = 0

\* C28: whenever the leaderboard is non-empty, TopPerformer.Converted and
\* TopPerformer.ConversionRate equal those of the rank-1 leaderboard entry;
\* the display names differ only when several performers tie on both values
\* or when every performer has converted 0 and rate 0.
C28_TopIsRankOne ==
    Done =>
        /\ TopAgreesWithBoard(TheOverview.TopPerformer, TheOverview.Leaderboards,
                              PerformersOf(as))
        /\ TopAgreesWithBoard(TheCAFinalOverview.TopPerformer,
                              TheCAFinalOverview.Leaderboards, ReviewPerformersOf(ca))

\* two performers that differ in the converted count: the top performer is
\* the one of rank 1
C28_Witness ==
    /\ Done
    /\ Len(TheOverview.Leaderboards) = 2
    /\ TheOverview.Leaderboards[1].Converted = 1
    /\ TheOverview.Leaderboards[2].Converted = 0
    /\ TheOverview.TopPerformer.DisplayName = TheOverview.Leaderboards[1].DisplayName

\* two performers that tie: the top performer is the one of rank 2
C28_WitnessTie ==
    /\ Done
    /\ Len(TheOverview.Leaderboards) = 2
    /\ TheOverview.TopPerformer.DisplayName = TheOverview.Leaderboards[2].DisplayName

-----------------------------------------------------------------------------
(* C29 *)

\* the creation-time window of a filter: its bounds on fields/Created
WindowOf(filter) ==
    LET created == SelectSeq(filter, LAMBDA c : c.field = "fields/Created")
    IN  {[op |-> created[i].op, value |-> created[i].value] : i \in DOMAIN created}

BothFiltersBuilt == filters.appIn # <<>> /\ filters.caFinal # <<>>
TheAppInWindow == WindowOf(filters.appIn[1])
TheCAFinalWindow == WindowOf(filters.caFinal[1])
WindowUnset == IsZero(query.CreatedAfter) /\ IsZero(query.CreatedBefore)

\* C29: for every Query the creation-time window of the Application fetch
\* is the same as that of the Review fetch of the same GetOverview call,
\* also when CreatedAfter and CreatedBefore are both unset and the
\* Application filter defaults to the last month.
C29_SameWindow ==
    BothFiltersBuilt => TheAppInWindow = TheCAFinalWindow

\* C29, as the code behaves: the two windows are the same when CreatedAfter
\* or CreatedBefore is set; when both are unset the Application filter has
\* one lower bound, a month before the current time, and the Review filter
\* has no bound on the creation time.
C29_SameWindowWhenSet ==
    BothFiltersBuilt =>
        /\ ~WindowUnset => TheAppInWindow = TheCAFinalWindow
        /\ WindowUnset =>
              /\ TheCAFinalWindow = {}
              /\ \E m \in monthAgo(now) :
                    TheAppInWindow = {[op |-> "ge", value |-> Format(m)]}

\* both filters of a Query with no window: the Application fetch is bounded
\* below and the Review fetch is not
C29_Witness ==
    /\ BothFiltersBuilt
    /\ WindowUnset
    /\ TheAppInWindow # {}
    /\ TheCAFinalWindow = {}

-----------------------------------------------------------------------------
(* C30 *)

\* C30: a fetch never returns success with a truncated list: when an item
\* has no fields or fails to marshal or unmarshal while paging, the fetch
\* returns an error and GetOverview fails instead of building a report from
\* the items seen before the bad one.
C30_NoTruncatedSuccess ==
    /\ asStopped => pcA = "failed"
    /\ caStopped => pcC = "failed"
    /\ (pcMain = "done" /\ (asStopped \/ caStopped)) =>
          retErr # NoErr /\ overview = <<>>

\* C30, as the code behaves: a fetch whose callback stopped at a bad item
\* returns the items seen before it with no error, and GetOverview returns
\* an error only when a fetch failed.
C30_TruncatedSuccess ==
    /\ asStopped => pcA = "returned"
    /\ caStopped => pcC = "returned"
    /\ (pcMain = "done" /\ retErr # NoErr) => pcA = "failed" \/ pcC = "failed"
    /\ (pcMain = "done" /\ pcA = "returned" /\ pcC = "returned") =>
          retErr = NoErr /\ overview # <<>>

\* the Application fetch stopped at a bad item after one good item and
\* GetOverview returned the Overview of that one item with no error
C30_Witness ==
    /\ Done
    /\ asStopped
    /\ Len(as) = 1
    /\ retErr = NoErr
    /\ TheOverview.Conversion.Total = 1

====
